---- MODULE Spec2Model ----
(***************************************************************************)
(* Agent execution engine of telegram-ai-bot: the <think> marker filter,   *)
(* the streamed tool-call accumulator of doStream, the output-token capper *)
(* and the three tool-calling loops (doSubAgentWithTools, runQuery and the *)
(* synthesis loop of runMailSummary); the MCP client (parseSSE, the        *)
(* handshake and tools/call of one MCPServer, callTool's result, the       *)
(* MCPManager) and tools.SubAgentFn with its depth counter.                *)
(*                                                                         *)
(* Go strings are modelled as sequences of one-character strings, so that  *)
(* len, slicing, strings.Index and strings.HasSuffix keep their meaning.   *)
(***************************************************************************)
EXTENDS Integers, Sequences, FiniteSets, TLC

VARIABLES
    \* ---- thinkFilter (one filter instance and the stream pushed into it)
    active,         \* thinkFilter.active
    pending,        \* thinkFilter.pending
    emitted,        \* callback invocations so far, in order
    text,           \* the whole content of the stream
    pos,            \* number of characters of text already pushed
    flushed,        \* flush has returned
    flushAt,        \* Len(emitted) when flush was entered
    activeAtFlush,  \* thinkFilter.active when flush was entered
    held,           \* some process call returned with text held back in pending
    \* ---- doStream tool-call accumulation
    tcMap,          \* slot index -> accumulated ToolCall
    wire,           \* per slot, the fragments the server cuts the call into
    recv,           \* per slot, the number of its fragments received
    served,         \* per slot, the call the server streams
    reordered,      \* a fragment of a lower slot arrived after one of a higher slot
    toolCalls,      \* StreamResult.ToolCalls
    streamEnded,    \* doStream has finalized the result
    \* ---- capMaxTokens and the tool-calling loops
    loop,           \* which loop runs: "sub", "query", "mail" ("none": no loop)
    pc,             \* position of the loop
    messages,       \* the conversation
    round,          \* doSubAgentWithTools: round counter
    calls,          \* result.ToolCalls of the current round
    ci,             \* number of tool calls of the round already executed
    lastReq,        \* the last chat request handed to doStream
    lastResp,       \* the last StreamResult (or error) doStream returned
    nToolReqs,      \* requests issued with a tool set
    nPlainReqs,     \* requests issued by the forced final call (tools = nil)
    nExec,          \* tool executions started
    ret,            \* what the loop returned
    overflow,       \* the conversation outgrew MaxMsgs and is no longer recorded
    modelAlwaysCalls, \* every answer to a request so far carried a tool call
    lastExec,       \* outcome of the last tool execution and the message built
    hasExec,        \* runMailSummary: execTool != nil (MCP servers are active)
    maxRounds,      \* parameter maxRounds
    maxToolResultChars, \* parameter maxToolResultChars
    contextLimit,   \* parameter contextLimit / cfg.Limit.Context
    maxTokens,      \* parameter maxTokens / cfg.Limit.Output
    effectiveMax,   \* result of capMaxTokens
    \* ---- MCPServer.parseSSE
    sseBody,        \* the lines of the response body
    sseScanned,     \* number of lines scanner.Scan() has delivered
    sseResult,      \* what parseSSE returned
    \* ---- one MCPServer and the goroutines that use it
    mu,             \* MCPServer.mu: the goroutine holding it, or Unlocked
    inited,         \* MCPServer.inited
    sessionID,      \* MCPServer.sessionID
    mcpTools,       \* MCPServer.tools
    cfgHeaders,     \* MCPServer.cfg.Headers
    gpc,            \* per goroutine, where it stands in initialize or callTool
    inflight,       \* per goroutine, the HTTP request it waits on
    hs,             \* the requests of the last handshake begun, and what came of them
    gret,           \* per goroutine, what its last initialize or callTool returned
    ops,            \* calls of initialize and callTool made so far
    lastSid,        \* Mcp-Session-Id of the response that ended the last exchange
    handshakes,     \* handshakes completed with inited set
    sentInited,     \* handshake requests sent while inited was set
    \* ---- one tools/call exchange of callTool and the tool message built from it
    ctSilent,       \* the server accepts the request and never answers
    ctResp,         \* the HTTP response, when the server answers
    ctBody,         \* the result member of the answer, as callResult decodes it
    ctKind,         \* the loop that executes the call
    ctCap,          \* maxToolResultChars of that loop
    ctPc,           \* "waiting" in Do, "returned" from callTool, "next" after the append
    ctRet,          \* what callTool returned
    ctMsg,          \* the tool message the loop appended
    \* ---- MCPManager: the servers of mcp.json, queries and the tool executor
    mgrHas,         \* mcpMgr != nil
    mgrServers,     \* MCPManager.servers: name -> cfg.Enabled, inited, tools
    mgrPc,          \* "start", "ready", "query" (InitServers done), "loop"
    mgrQueries,     \* queries begun
    mgrNames,       \* mcpNames of the query
    mgrDefs,        \* names of the definitions ActiveToolDefs returned
    mgrLast,        \* the last call into the manager and what its caller received
    mgrRoute,       \* where the executor sent the last tool call
    \* ---- tools.SubAgentFn called by the tools of concurrent top-level loops
    saDepth,        \* tools.SubAgentDepth
    saShow,         \* showSA
    saPc,           \* per goroutine: "loop", "entered", "running", "returned"
    saMsgs,         \* per goroutine, msgs of its invocation
    saParent,       \* per goroutine, the messages of its top-level loop
    saRead,         \* per goroutine, what SubAgentDepth.Load() gave its invocation
    saRet,          \* per goroutine, what SubAgentFn returned
    saCalls,        \* per goroutine, invocations made
    \* ---- doStream: the lines of the response body
    bdBody,         \* the lines of resp.Body
    bdPos,          \* lines the scanner has handed out
    bdAcc,          \* result.Content, tcMap, hadReasoning, filter and contentOut
    bdPc,           \* "scan" in the loop, "returned" after the return
    bdRet,          \* what doStream returned
    \* ---- runBot: the webhook handler
    whAllowed,      \* allowed
    whLast,         \* the last request served, the answer and what was started
    whServed,       \* requests served
    \* ---- splitTelegramMessage
    spText,         \* the parameter text as passed
    spRest,         \* text, what is left of it
    spChunks,       \* chunks
    spPc,           \* "call", "loop" or "returned"
    \* ---- fetchAllNews
    nwUrls,         \* urls
    nwSources,      \* sources
    nwNext,         \* passes of the loop made
    nwWg,           \* the counter of wg
    nwG,            \* per goroutine: "none", "started", "fetched", "done"
    nwGot,          \* per goroutine, what FetchURL returned to it
    nwWrote,        \* pairs <<goroutine, slot>>: the goroutine assigned to the slot
    nwPc            \* fetchAllNews: "loop", "returned"

filterVars == <<active, pending, emitted, text, pos, flushed, flushAt, activeAtFlush, held>>
streamVars == <<tcMap, wire, recv, served, reordered, toolCalls, streamEnded>>
loopVars == <<loop, pc, messages, round, calls, ci, lastReq, lastResp, nToolReqs,
              nPlainReqs, nExec, ret, overflow, modelAlwaysCalls, lastExec, hasExec,
              maxRounds, maxToolResultChars, contextLimit, maxTokens, effectiveMax>>
sseVars == <<sseBody, sseScanned, sseResult>>
mcpVars == <<mu, inited, sessionID, mcpTools, cfgHeaders, gpc, inflight, hs, gret,
             ops, lastSid, handshakes, sentInited>>
callVars == <<ctSilent, ctResp, ctBody, ctKind, ctCap, ctPc, ctRet, ctMsg>>
mgrVars == <<mgrHas, mgrServers, mgrPc, mgrQueries, mgrNames, mgrDefs, mgrLast, mgrRoute>>
subVars == <<saDepth, saShow, saPc, saMsgs, saParent, saRead, saRet, saCalls>>
bodyVars == <<bdBody, bdPos, bdAcc, bdPc, bdRet>>
botVars == <<whAllowed, whLast, whServed>>
splitVars == <<spText, spRest, spChunks, spPc>>
newsVars == <<nwUrls, nwSources, nwNext, nwWg, nwG, nwGot, nwWrote, nwPc>>
moreVars == <<bodyVars, botVars, splitVars, newsVars>>
toolVars == <<callVars, mgrVars, subVars, moreVars>>
vars == <<filterVars, streamVars, loopVars, sseVars, mcpVars, toolVars>>

(***************************************************************************)
(* Strings                                                                 *)
(***************************************************************************)
\* s[i:j] of Go, 0-based, half open
Slice(s, i, j) == SubSeq(s, i + 1, j)

\* strings.HasSuffix(s, p)
HasSuffix(s, p) == Len(s) >= Len(p) /\ SubSeq(s, Len(s) - Len(p) + 1, Len(s)) = p

\* strings.Index(s, sub): 0-based position of the first occurrence, -1 if none
Index(s, sub) ==
    LET hits == {i \in 0..(Len(s) - Len(sub)) : Slice(s, i, i + Len(sub)) = sub}
    IN IF hits = {} THEN -1 ELSE CHOOSE i \in hits : \A j \in hits : i <= j

\* a string of n characters
Rep(n) == [i \in 1..n |-> "x"]

(***************************************************************************)
(* thinkFilter                                                             *)
(***************************************************************************)
\* "<think>"
TagOpen == <<"<", "t", "h", "i", "n", "k", ">">>

\* "</think>"
TagClose == <<"<", "/", "t", "h", "i", "n", "k", ">">>

\* One callback invocation: writeContent(s), writeThink(s), onThinkStart(),
\* onThinkEnd().
Ev(kind, s) == [kind |-> kind, text |-> s]

\* partialSuffix that never looks for the tag less its last character
partialSuffixShort(s, tag) ==
    LET max == IF Len(tag) - 2 > Len(s) THEN Len(s) ELSE Len(tag) - 2
        ns == {n \in 1..max : HasSuffix(s, Slice(tag, 0, n))}
    IN IF ns = {} THEN 0 ELSE CHOOSE n \in ns : \A m \in ns : m <= n

\* partialSuffix that counts one character too many
partialSuffixOneMore(s, tag) ==
    LET max == IF Len(tag) - 1 > Len(s) THEN Len(s) ELSE Len(tag) - 1
        ns == {n \in 1..max : HasSuffix(s, Slice(tag, 0, n))}
        best == CHOOSE n \in ns : \A m \in ns : m <= n
    IN IF ns = {} THEN 0 ELSE IF best < Len(s) THEN best + 1 ELSE best

\* length of the longest suffix of s that is a prefix of tag, or 0
partialSuffix(s, tag) ==
    LET max == IF Len(tag) - 1 > Len(s) THEN Len(s) ELSE Len(tag) - 1
        ns == {n \in 1..max : HasSuffix(s, Slice(tag, 0, n))}
    IN IF ns = {} THEN 0 ELSE CHOOSE n \in ns : \A m \in ns : m <= n

\* The loop of process over f.pending; f = [active, pending, out], out being
\* the callbacks invoked.
RECURSIVE processLoop(_)
processLoop(f) ==
    IF f.pending = <<>> THEN f
    ELSE IF ~f.active THEN
        LET idx == Index(f.pending, TagOpen)
            n == partialSuffix(f.pending, TagOpen)
            keep == Len(f.pending) - n
        IN IF idx >= 0 THEN
               processLoop([active |-> TRUE,
                            pending |-> Slice(f.pending, idx + Len(TagOpen), Len(f.pending)),
                            out |-> (IF idx > 0
                                     THEN Append(f.out, Ev("content", Slice(f.pending, 0, idx)))
                                     ELSE f.out) \o <<Ev("start", <<>>)>>])
           ELSE IF n > 0 THEN
               [active |-> f.active,
                pending |-> Slice(f.pending, keep, Len(f.pending)),
                out |-> Append(f.out, Ev("content", Slice(f.pending, 0, keep)))]
           ELSE
               [active |-> f.active, pending |-> <<>>,
                out |-> Append(f.out, Ev("content", f.pending))]
    ELSE
        LET idx == Index(f.pending, TagClose)
            n == partialSuffix(f.pending, TagClose)
            keep == Len(f.pending) - n
            safe == Slice(f.pending, 0, keep)
        IN IF idx >= 0 THEN
               processLoop([active |-> FALSE,
                            pending |-> Slice(f.pending, idx + Len(TagClose), Len(f.pending)),
                            out |-> (IF idx > 0
                                     THEN Append(f.out, Ev("think", Slice(f.pending, 0, idx)))
                                     ELSE f.out) \o <<Ev("end", <<>>)>>])
           ELSE IF n > 0 THEN
               [active |-> f.active,
                pending |-> Slice(f.pending, keep, Len(f.pending)),
                out |-> IF safe # <<>> THEN Append(f.out, Ev("think", safe)) ELSE f.out]
           ELSE
               [active |-> f.active, pending |-> <<>>,
                out |-> Append(f.out, Ev("think", f.pending))]

\* thinkFilter.process(chunk)
process(f, chunk) == processLoop([f EXCEPT !.pending = @ \o chunk])

\* flush that drops what is pending outside a thinking block
flushDropsContent(f) ==
    IF f.pending = <<>> THEN f
    ELSE [active |-> FALSE, pending |-> <<>>,
          out |-> IF f.active
                  THEN f.out \o <<Ev("think", f.pending), Ev("end", <<>>)>>
                  ELSE f.out]

\* thinkFilter.flush()
flush(f) ==
    IF f.pending = <<>> THEN f
    ELSE [active |-> FALSE, pending |-> <<>>,
          out |-> IF f.active
                  THEN f.out \o <<Ev("think", f.pending), Ev("end", <<>>)>>
                  ELSE Append(f.out, Ev("content", f.pending))]

\* a new filter, as doStream and doSubAgentStream construct it
NewFilter == [active |-> FALSE, pending |-> <<>>, out |-> <<>>]

\* what the writeContent callback received, concatenated
RECURSIVE Visible(_)
Visible(out) ==
    IF out = <<>> THEN <<>>
    ELSE (IF Head(out).kind = "content" THEN Head(out).text ELSE <<>>) \o Visible(Tail(out))

(***************************************************************************)
(* The stream pushed through one thinkFilter                               *)
(***************************************************************************)
\* number of pieces a stream content is put together from
MaxPieces == 3

\* the pieces: both markers, plain text, and beginnings of markers
Pieces == {TagOpen, TagClose, <<"a">>, <<"<">>, <<"<", "/", "t">>, <<"<", "t", "h">>}

RECURSIVE TextsOf(_)
TextsOf(n) ==
    IF n = 0 THEN {<<>>}
    ELSE LET prev == TextsOf(n - 1) IN prev \cup {t \o p : t \in prev, p \in Pieces}

\* The sinks behind the callbacks are character streams: consecutive writes to
\* the same sink run together, an empty write leaves no trace.
RECURSIVE Record(_, _)
Record(log, out) ==
    IF out = <<>> THEN log
    ELSE LET e == Head(out)
             n == Len(log)
         IN IF e.kind \in {"content", "think"} /\ e.text = <<>> THEN Record(log, Tail(out))
            ELSE IF e.kind \in {"content", "think"} /\ n > 0 /\ log[n].kind = e.kind
            THEN Record([log EXCEPT ![n].text = @ \o e.text], Tail(out))
            ELSE Record(Append(log, e), Tail(out))

FilterIdle ==
    /\ active = FALSE /\ pending = <<>> /\ emitted = <<>> /\ text = <<>> /\ pos = 0
    /\ flushed = FALSE /\ flushAt = 0 /\ activeAtFlush = FALSE /\ held = FALSE

FilterInit ==
    /\ text \in TextsOf(MaxPieces)
    /\ active = FALSE /\ pending = <<>> /\ emitted = <<>> /\ pos = 0
    /\ flushed = FALSE /\ flushAt = 0 /\ activeAtFlush = FALSE /\ held = FALSE

\* filter.process(*ch.Delta.Content) on the next k characters of the stream
Push(k) ==
    /\ ~flushed
    /\ pos + k <= Len(text)
    /\ LET f == process([active |-> active, pending |-> pending, out |-> <<>>],
                        SubSeq(text, pos + 1, pos + k))
       IN /\ active' = f.active
          /\ pending' = f.pending
          /\ emitted' = Record(emitted, f.out)
          /\ held' = (held \/ f.pending # <<>>)
    /\ pos' = pos + k
    /\ UNCHANGED <<text, flushed, flushAt, activeAtFlush>>
    /\ UNCHANGED <<streamVars, loopVars, sseVars, mcpVars, toolVars>>

\* filter.flush() at the end of the stream
Flush ==
    /\ ~flushed
    /\ pos = Len(text)
    /\ LET f == flush([active |-> active, pending |-> pending, out |-> <<>>])
       IN /\ active' = f.active
          /\ pending' = f.pending
          /\ emitted' = Record(emitted, f.out)
    /\ flushed' = TRUE
    /\ flushAt' = Len(emitted)
    /\ activeAtFlush' = active
    /\ UNCHANGED <<text, pos, held>>
    /\ UNCHANGED <<streamVars, loopVars, sseVars, mcpVars, toolVars>>

(***************************************************************************)
(* doStream: tool calls accumulated across chunks                          *)
(***************************************************************************)
\* highest slot index a server uses
MaxSlot == 2

Slots == 0..MaxSlot

Digit(i) == <<"0", "1", "2", "3", "4", "5", "6", "7", "8", "9">>[i + 1]

\* ToolCall{ID, Type, Function{Name, Arguments}}
ToolCall(id, type, name, args) ==
    [ID |-> id, Type |-> type, Function |-> [Name |-> name, Arguments |-> args]]

\* streamToolCall{Index, ID, Type, Function{Name, Arguments}}
Fragment(index, id, type, name, args) ==
    [Index |-> index, ID |-> id, Type |-> type,
     Function |-> [Name |-> name, Arguments |-> args]]

TypeFunction == <<"f", "u", "n", "c", "t", "i", "o", "n">>

\* the call a server streams in slot i: id, name and arguments differ per slot
ServedCall(i) ==
    ToolCall(<<"c", Digit(i)>>, TypeFunction, <<"f", Digit(i)>>, <<"{", Digit(i)>>)

\* The ways a server cuts one call into fragments: the first fragment carries
\* id, type and name with a possibly empty beginning of the arguments, every
\* later one a non-empty further piece of the arguments.
RECURSIVE Cuts(_)
Cuts(s) ==
    IF s = <<>> THEN {<<>>}
    ELSE UNION {{<<SubSeq(s, 1, k)>> \o rest : rest \in Cuts(SubSeq(s, k + 1, Len(s)))}
                : k \in 1..Len(s)}

FragmentsOf(i) ==
    LET c == ServedCall(i)
        a == c.Function.Arguments
        hd(x) == Fragment(i, c.ID, c.Type, c.Function.Name, x)
        tl(x) == Fragment(i, <<>>, <<>>, <<>>, x)
        more(ps) == [j \in 1..Len(ps) |-> tl(ps[j])]
    IN {<<hd(<<>>)>> \o more(ps) : ps \in Cuts(a)}
       \cup {<<hd(Head(ps))>> \o more(Tail(ps)) : ps \in Cuts(a)}

\* accumulate that takes the name of every fragment, also an empty one
accumulateAnyName(m, tc) ==
    IF tc.Index \in DOMAIN m THEN
        LET existing == m[tc.Index]
            e1 == IF tc.ID # <<>> THEN [existing EXCEPT !.ID = tc.ID] ELSE existing
            e2 == [e1 EXCEPT !.Function.Name = tc.Function.Name]
        IN [m EXCEPT ![tc.Index] =
               [e2 EXCEPT !.Function.Arguments = @ \o tc.Function.Arguments]]
    ELSE
        [i \in DOMAIN m \cup {tc.Index} |->
            IF i = tc.Index
            THEN ToolCall(tc.ID, tc.Type, tc.Function.Name, tc.Function.Arguments)
            ELSE m[i]]

\* the inner loop body of doStream for one streamToolCall
accumulate(m, tc) ==
    IF tc.Index \in DOMAIN m THEN
        LET existing == m[tc.Index]
            e1 == IF tc.ID # <<>> THEN [existing EXCEPT !.ID = tc.ID] ELSE existing
            e2 == IF tc.Function.Name # <<>>
                  THEN [e1 EXCEPT !.Function.Name = tc.Function.Name] ELSE e1
        IN [m EXCEPT ![tc.Index] =
               [e2 EXCEPT !.Function.Arguments = @ \o tc.Function.Arguments]]
    ELSE
        [i \in DOMAIN m \cup {tc.Index} |->
            IF i = tc.Index
            THEN ToolCall(tc.ID, tc.Type, tc.Function.Name, tc.Function.Arguments)
            ELSE m[i]]

\* for i := 0; i < len(tcMap); i++ { if tc, ok := tcMap[i]; ok { append } }
RECURSIVE finalizeFrom(_, _)
finalizeFrom(m, i) ==
    IF i >= Cardinality(DOMAIN m) THEN <<>>
    ELSE (IF i \in DOMAIN m THEN <<m[i]>> ELSE <<>>) \o finalizeFrom(m, i + 1)

finalize(m) == finalizeFrom(m, 0)

EmptyMap == [i \in {} |-> 0]

StreamIdle ==
    /\ tcMap = EmptyMap /\ wire = EmptyMap /\ recv = EmptyMap /\ served = EmptyMap
    /\ reordered = FALSE /\ toolCalls = <<>> /\ streamEnded = FALSE

StreamInit ==
    /\ \E S \in SUBSET Slots :
          /\ served = [i \in S |-> ServedCall(i)]
          /\ wire \in [S -> UNION {FragmentsOf(i) : i \in S}]
          /\ \A i \in S : wire[i] \in FragmentsOf(i)
          /\ recv = [i \in S |-> 0]
    /\ tcMap = EmptyMap /\ reordered = FALSE /\ toolCalls = <<>> /\ streamEnded = FALSE

\* one streamToolCall of slot i arrives in a chunk
Deliver(i) ==
    /\ ~streamEnded
    /\ i \in DOMAIN wire
    /\ recv[i] < Len(wire[i])
    /\ tcMap' = accumulate(tcMap, wire[i][recv[i] + 1])
    /\ recv' = [recv EXCEPT ![i] = @ + 1]
    /\ reordered' = (reordered \/ \E j \in DOMAIN tcMap : j > i)
    /\ UNCHANGED <<wire, served, toolCalls, streamEnded>>
    /\ UNCHANGED <<filterVars, loopVars, sseVars, mcpVars, toolVars>>

\* the body ended or data: [DONE] arrived; the result is put together
EndStream ==
    /\ ~streamEnded
    /\ \A i \in DOMAIN wire : recv[i] = Len(wire[i])
    /\ toolCalls' = finalize(tcMap)
    /\ streamEnded' = TRUE
    /\ UNCHANGED <<tcMap, wire, recv, served, reordered>>
    /\ UNCHANGED <<filterVars, loopVars, sseVars, mcpVars, toolVars>>

(***************************************************************************)
(* Messages and the output-token cap                                       *)
(***************************************************************************)
RoleSystem == <<"s", "y", "s", "t", "e", "m">>

RoleUser == <<"u", "s", "e", "r">>

RoleAssistant == <<"a", "s", "s", "i", "s", "t", "a", "n", "t">>

RoleTool == <<"t", "o", "o", "l">>

\* Message{Role, Content, ToolCalls, ToolCallID}
Message(role, content, tcs, id) ==
    [Role |-> role, Content |-> content, ToolCalls |-> tcs, ToolCallID |-> id]

RECURSIVE callChars(_)
callChars(tcs) ==
    IF tcs = <<>> THEN 0
    ELSE Len(Head(tcs).Function.Name) + Len(Head(tcs).Function.Arguments) + 20
         + callChars(Tail(tcs))

RECURSIVE messageChars(_)
messageChars(ms) ==
    IF ms = <<>> THEN 0
    ELSE Len(Head(ms).Content) + Len(Head(ms).Role) + 4 + callChars(Head(ms).ToolCalls)
         + messageChars(Tail(ms))

\* rough upper-bound token estimate: ~3 chars per token, +50 framing
estimateTokens(ms) == (messageChars(ms) \div 3) + 50

minOutput == 256

\* capMaxTokens without the floor of minOutput
capMaxTokensNoFloor(limit, maxTok, ms) ==
    IF limit <= 0 THEN maxTok
    ELSE LET estimated == estimateTokens(ms)
             available == limit - estimated
         IN IF available < maxTok THEN available ELSE maxTok

\* capMaxTokens without the test for an unknown window
capMaxTokensAlwaysCap(limit, maxTok, ms) ==
    LET estimated == estimateTokens(ms)
        available == limit - estimated
    IN IF available < minOutput THEN minOutput
       ELSE IF available < maxTok THEN available
       ELSE maxTok

capMaxTokens(limit, maxTok, ms) ==
    IF limit <= 0 THEN maxTok
    ELSE LET estimated == estimateTokens(ms)
             available == limit - estimated
         IN IF available < minOutput THEN minOutput
            ELSE IF available < maxTok THEN available
            ELSE maxTok

(***************************************************************************)
(* stripThinkTags                                                          *)
(***************************************************************************)
\* \s of the regular expression; strings.TrimSpace cuts the same characters
WhiteSpace == {" ", "\t", "\n", "\f", "\r"}

RECURSIVE trimLeft(_)
trimLeft(s) == IF s # <<>> /\ Head(s) \in WhiteSpace THEN trimLeft(Tail(s)) ELSE s

RECURSIVE trimRight(_)
trimRight(s) ==
    IF s # <<>> /\ s[Len(s)] \in WhiteSpace THEN trimRight(SubSeq(s, 1, Len(s) - 1)) ELSE s

TrimSpace(s) == trimRight(trimLeft(s))

\* reThinkTags.ReplaceAllString(s, ""), reThinkTags = (?s)<think>.*?</think>\s*
RECURSIVE removeThink(_)
removeThink(s) ==
    LET i == Index(s, TagOpen)
        after == Slice(s, i + Len(TagOpen), Len(s))
        j == Index(after, TagClose)
    IN IF i < 0 THEN s
       ELSE IF j < 0 THEN s
       ELSE Slice(s, 0, i) \o removeThink(trimLeft(Slice(after, j + Len(TagClose), Len(after))))

stripThinkTags(s) == TrimSpace(removeThink(s))

(***************************************************************************)
(* The tool-calling loops                                                  *)
(***************************************************************************)
\* rounds a sub-agent may be given
MaxRounds == 2

\* messages of a conversation that are recorded; a longer conversation goes on
\* unrecorded (overflow)
MaxMsgs == 2 + MaxRounds * 3

Loops == {"sub", "query", "mail"}

\* values of maxToolResultChars (0: no cap)
ResultCaps == {0, 4}

\* values of cfg.Limit.Context (0: unknown)
ContextLimits == {0, 330}

\* values of cfg.Limit.Output
OutputLimits == {300}

ErrPrefix == <<"e", "r", "r", "o", "r", ":", " ">>

TruncMarker == <<"\n", "[", ".", ".", ".", "t", "r", "u", "n", "c", "a", "t", "e", "d", "]">>

UnknownTool == <<"u", "n", "k", "n", "o", "w", "n", " ", "t", "o", "o", "l", " ">>

\* %q of a name without characters to escape
Quote(s) == <<"\"">> \o s \o <<"\"">>

SystemPrompt == <<"S">>

UserQuery == <<"Q">>

\* what the model may answer: content, with or without a thinking block
Contents == {<<>>, <<"o", "k">>, TagOpen \o <<"t">> \o TagClose \o <<" ", "o", "k", "\n">>}

CallA == ToolCall(<<"a">>, TypeFunction, <<"f">>, <<"{", "}">>)

CallB == ToolCall(<<"b">>, TypeFunction, <<"g">>, <<"{", "}">>)

\* the tool calls of one model turn
StreamResult(content, tcs) == [failed |-> FALSE, Content |-> content, ToolCalls |-> tcs]

\* what doStream returns: an error, a turn without tool calls, or a turn with
\* tool calls
Responses ==
    {[failed |-> TRUE, Content |-> <<"E", "O", "F">>, ToolCalls |-> <<>>]}
    \cup {StreamResult(c, <<>>) : c \in Contents}
    \cup {StreamResult(<<"o", "k">>, <<CallA>>),
          StreamResult(TagOpen \o <<"t">> \o TagClose \o <<"o", "k">>, <<CallA, CallB>>),
          StreamResult(<<>>, <<CallB, CallA>>)}

\* what a tool returns without an error
ToolTexts == {<<"r">>, <<"r", "e", "s", "u", "l", "t">>}

\* execTool(name, args) for one call: (text, nil) or ("", err), the error of
\* defaultToolExec and makeToolExec being the unknown tool. runMailSummary
\* without an executor answers every call with the unknown-tool text itself.
execOutcomes(kind, exec, tc) ==
    LET unknown == [failed |-> TRUE, text |-> UnknownTool \o Quote(tc.Function.Name)]
    IN IF kind = "mail" /\ ~exec THEN {unknown}
       ELSE {[failed |-> FALSE, text |-> t] : t \in ToolTexts} \cup {unknown}

\* toolResultText with the error taken as the result text
toolResultTextBare(outcome) == outcome.text

\* toolResult before truncation
toolResultText(outcome) ==
    IF outcome.failed THEN ErrPrefix \o outcome.text ELSE outcome.text

\* doSubAgentWithTools: truncate tool results to prevent context overflow
capResult(cap, s) ==
    IF cap > 0 /\ Len(s) > cap THEN Slice(s, 0, cap) \o TruncMarker ELSE s

\* toolMessage without the tool_call_id
toolMessageNoID(kind, cap, tc, outcome) ==
    Message(RoleTool,
            IF kind = "sub" THEN capResult(cap, toolResultText(outcome))
            ELSE toolResultText(outcome),
            <<>>, <<>>)

\* the tool-role message appended for call tc
toolMessage(kind, cap, tc, outcome) ==
    Message(RoleTool,
            IF kind = "sub" THEN capResult(cap, toolResultText(outcome))
            ELSE toolResultText(outcome),
            <<>>, tc.ID)

\* the assistant message appended for a turn with tool calls
assistantMessage(resp) == Message(RoleAssistant, resp.Content, resp.ToolCalls, <<>>)

\* chatRequest{Messages, Tools, MaxTokens}; Tools is "set" or "nil"
chatRequest(ms, tools, maxTok) == [Messages |-> ms, Tools |-> tools, MaxTokens |-> maxTok]

\* the tool set the loop offers
toolDefs(kind, exec) == IF kind = "mail" /\ ~exec THEN "nil" ELSE "set"

\* max_tokens of a request of the loop
requestMax(kind, limit, maxTok, ms) ==
    IF kind = "sub" THEN capMaxTokens(limit, maxTok, ms) ELSE maxTok

\* loopHead with the loop condition round <= maxRounds
loopHeadOffByOne(kind, r, rounds) ==
    IF kind = "sub" /\ ~(r <= rounds) THEN "forced" ELSE "awaiting"

\* where the loop stands before a model call: doSubAgentWithTools leaves its
\* for loop when round reaches maxRounds, the other two loops are for { }
loopHead(kind, r, rounds) ==
    IF kind = "sub" /\ ~(r < rounds) THEN "forced" ELSE "awaiting"

\* the error a loop returns when doStream fails
streamError(kind, where, r, e) ==
    IF kind = "sub" /\ where = "round"
    THEN <<"r", "o", "u", "n", "d", " ", Digit(r), ":", " ">> \o e
    ELSE IF kind = "sub"
    THEN <<"f", "i", "n", "a", "l", " ", "r", "o", "u", "n", "d", ":", " ">> \o e
    ELSE IF kind = "mail"
    THEN <<"f", "i", "n", "a", "l", " ", "s", "y", "n", "t", "h", "e", "s", "i", "s", ":", " ">> \o e
    ELSE e

\* afterStream without the check of err
afterStreamIgnoreErr(resp) ==
    IF Len(resp.ToolCalls) = 0 THEN "return" ELSE "tools"

\* what the loop does with the outcome of doStream: "fail" returns the error,
\* "return" returns the content, "tools" goes on to execute the tool calls
afterStream(resp) ==
    IF resp.failed THEN "fail"
    ELSE IF Len(resp.ToolCalls) = 0 THEN "return"
    ELSE "tools"

\* the text a loop returns
finalText(kind, content) == IF kind = "sub" THEN stripThinkTags(content) ELSE content

NoRequest == [Messages |-> <<>>, Tools |-> "none", MaxTokens |-> 0]

NoResponse == [failed |-> FALSE, Content |-> <<>>, ToolCalls |-> <<>>]

NoExec == [failed |-> FALSE, text |-> <<>>, id |-> <<>>]

NoReturn == [kind |-> "none", text |-> <<>>]

LoopIdle ==
    /\ loop = "none" /\ pc = "idle" /\ messages = <<>> /\ round = 0
    /\ calls = <<>> /\ ci = 0 /\ lastReq = NoRequest /\ lastResp = NoResponse
    /\ nToolReqs = 0 /\ nPlainReqs = 0 /\ nExec = 0 /\ ret = NoReturn
    /\ overflow = FALSE /\ modelAlwaysCalls = TRUE /\ lastExec = NoExec
    /\ hasExec = TRUE /\ maxRounds = 0 /\ maxToolResultChars = 0
    /\ contextLimit = 0 /\ maxTokens = 0 /\ effectiveMax = 0

\* The loop starts on the two-message conversation. maxRounds and
\* maxToolResultChars are parameters of doSubAgentWithTools only;
\* contextLimit is cfg.Limit.Context, which doSubAgentWithTools is handed and
\* the configuration of runQuery and runMailSummary holds as well.
LoopInit ==
    /\ loop \in Loops
    /\ maxRounds \in (IF loop = "sub" THEN 0..MaxRounds ELSE {0})
    /\ maxToolResultChars \in (IF loop = "sub" THEN ResultCaps ELSE {0})
    /\ contextLimit \in ContextLimits
    /\ hasExec \in (IF loop = "mail" THEN BOOLEAN ELSE {TRUE})
    /\ maxTokens \in OutputLimits
    /\ messages = <<Message(RoleSystem, SystemPrompt, <<>>, <<>>),
                    Message(RoleUser, UserQuery, <<>>, <<>>)>>
    /\ round = 0
    /\ pc = loopHead(loop, 0, maxRounds)
    /\ calls = <<>> /\ ci = 0 /\ lastReq = NoRequest /\ lastResp = NoResponse
    /\ nToolReqs = 0 /\ nPlainReqs = 0 /\ nExec = 0 /\ ret = NoReturn
    /\ overflow = FALSE /\ modelAlwaysCalls = TRUE /\ lastExec = NoExec
    /\ effectiveMax = 0

loopParams == <<loop, maxRounds, maxToolResultChars, contextLimit, maxTokens, hasExec>>

\* One pass of the loop up to the tool calls: the capped request, doStream, and
\* what the loop does with its result.
ModelTurn(resp) ==
    /\ pc = "awaiting"
    /\ LET tools == toolDefs(loop, hasExec)
           cap == requestMax(loop, contextLimit, maxTokens, messages)
           fits == ~overflow /\ Len(messages) + 1 + Len(resp.ToolCalls) <= MaxMsgs
           todo == afterStream(resp)
       IN /\ effectiveMax' = cap
          /\ lastReq' = chatRequest(messages, tools, cap)
          /\ lastResp' = resp
          /\ nToolReqs' = IF tools = "set" /\ ~overflow THEN nToolReqs + 1 ELSE nToolReqs
          /\ nPlainReqs' = IF tools = "nil" /\ ~overflow THEN nPlainReqs + 1 ELSE nPlainReqs
          /\ modelAlwaysCalls' = (modelAlwaysCalls /\ ~resp.failed /\ resp.ToolCalls # <<>>)
          /\ IF todo = "fail" THEN
                 /\ pc' = "failed"
                 /\ ret' = [kind |-> "error",
                            text |-> streamError(loop, "round", round, resp.Content)]
                 /\ UNCHANGED <<messages, calls, ci, overflow>>
             ELSE IF todo = "return" THEN
                 /\ pc' = "done"
                 /\ ret' = [kind |-> "ok", text |-> finalText(loop, resp.Content)]
                 /\ UNCHANGED <<messages, calls, ci, overflow>>
             ELSE
                 /\ pc' = "tools"
                 /\ messages' = IF fits THEN Append(messages, assistantMessage(resp))
                                ELSE <<>>
                 /\ overflow' = ~fits
                 /\ calls' = resp.ToolCalls
                 /\ ci' = 0
                 /\ UNCHANGED ret
    /\ UNCHANGED <<round, nExec, lastExec, loopParams>>
    /\ UNCHANGED <<filterVars, streamVars, sseVars, mcpVars, toolVars>>

\* The body of "for _, tc := range result.ToolCalls" for the next call, and,
\* after the last call of the round, the step back to the head of the loop.
ExecTool ==
    /\ pc = "tools"
    /\ ci < Len(calls)
    /\ \E outcome \in execOutcomes(loop, hasExec, calls[ci + 1]) :
          LET tc == calls[ci + 1]
              msg == toolMessage(loop, maxToolResultChars, tc, outcome)
              last == (ci + 1 = Len(calls))
              r == IF last /\ loop = "sub" THEN round + 1 ELSE round
          IN /\ messages' = IF overflow THEN messages ELSE Append(messages, msg)
             /\ lastExec' = [failed |-> outcome.failed, text |-> outcome.text, id |-> tc.ID]
             /\ nExec' = IF overflow THEN nExec ELSE nExec + 1
             /\ ci' = ci + 1
             /\ round' = r
             /\ pc' = IF last THEN loopHead(loop, r, maxRounds) ELSE "tools"
    /\ UNCHANGED <<calls, lastReq, lastResp, nToolReqs, nPlainReqs, ret, overflow,
                   modelAlwaysCalls, effectiveMax, loopParams>>
    /\ UNCHANGED <<filterVars, streamVars, sseVars, mcpVars, toolVars>>

\* doSubAgentWithTools after its loop: one call without tools, whose content
\* is returned
ForcedFinal(resp) ==
    /\ pc = "forced"
    /\ LET cap == capMaxTokens(contextLimit, maxTokens, messages)
       IN /\ effectiveMax' = cap
          /\ lastReq' = chatRequest(messages, "nil", cap)
          /\ lastResp' = resp
          /\ nPlainReqs' = nPlainReqs + 1
          /\ IF resp.failed THEN
                 /\ pc' = "failed"
                 /\ ret' = [kind |-> "error",
                            text |-> streamError(loop, "final", round, resp.Content)]
             ELSE
                 /\ pc' = "done"
                 /\ ret' = [kind |-> "ok", text |-> stripThinkTags(resp.Content)]
    /\ UNCHANGED <<messages, round, calls, ci, nToolReqs, nExec, overflow,
                   modelAlwaysCalls, lastExec, loopParams>>
    /\ UNCHANGED <<filterVars, streamVars, sseVars, mcpVars, toolVars>>

(***************************************************************************)
(* capMaxTokens on its own                                                 *)
(***************************************************************************)
\* lengths of message contents
ContentLens == {0, 32, 400, 2500}

\* messages a conversation is put together from
CapPool ==
    {Message(RoleSystem, Rep(32), <<>>, <<>>)}
    \cup {Message(RoleUser, Rep(n), <<>>, <<>>) : n \in ContentLens}
    \cup {Message(RoleAssistant, <<>>, <<CallA>>, <<>>),
          Message(RoleTool, Rep(400), <<>>, <<"a">>)}

\* messages of a conversation handed to capMaxTokens
MaxConv == 2

CapConversations == UNION {[1..n -> CapPool] : n \in 0..MaxConv}

CapInit ==
    /\ contextLimit \in {0 - 1, 0, 300, 1000, 8192}
    /\ maxTokens \in {100, 256, 500, 4096}
    /\ messages \in CapConversations
    /\ loop = "none" /\ pc = "cap" /\ round = 0
    /\ calls = <<>> /\ ci = 0 /\ lastReq = NoRequest /\ lastResp = NoResponse
    /\ nToolReqs = 0 /\ nPlainReqs = 0 /\ nExec = 0 /\ ret = NoReturn
    /\ overflow = FALSE /\ modelAlwaysCalls = TRUE /\ lastExec = NoExec
    /\ hasExec = TRUE /\ maxRounds = 0 /\ maxToolResultChars = 0
    /\ effectiveMax = 0

\* effectiveMax := capMaxTokens(contextLimit, maxTokens, messages)
ApplyCap ==
    /\ pc = "cap"
    /\ effectiveMax' = capMaxTokens(contextLimit, maxTokens, messages)
    /\ pc' = "capped"
    /\ UNCHANGED <<loop, messages, round, calls, ci, lastReq, lastResp, nToolReqs,
                   nPlainReqs, nExec, ret, overflow, modelAlwaysCalls, lastExec,
                   hasExec, maxRounds, maxToolResultChars, contextLimit, maxTokens>>
    /\ UNCHANGED <<filterVars, streamVars, sseVars, mcpVars, toolVars>>

(***************************************************************************)
(* MCP: JSON-RPC responses and MCPServer.parseSSE                          *)
(***************************************************************************)
\* a nil *jsonRPCError
Nil == "nil"

\* a nil *int, and a pointer to n
NilID == <<>>

IntPtr(n) == <<n>>

\* The JSON documents a server sends, by what encoding/json makes of them when
\* it decodes them into a jsonRPCResponse: valid is FALSE for a text that is
\* no JSON; id is "absent" (no id member), "null", "number" (then n is the
\* number) or "string" (an id that is a JSON string); result names the result
\* member ("absent": none); error is the message of the error member
\* (Nil: none).
JSONDoc(valid, id, n, result, error) ==
    [valid |-> valid, id |-> id, n |-> n, result |-> result, error |-> error]

\* jsonRPCResponse{ID, Result, Error}
jsonRPCResponse(id, result, error) == [ID |-> id, Result |-> result, Error |-> error]

\* json.Unmarshal(data, &rpcResp): an error for a text that is no JSON and for
\* an id that is no number (ID is *int); a missing or null id leaves ID nil
Unmarshal(doc) ==
    IF ~doc.valid \/ doc.id = "string"
    THEN [err |-> TRUE, resp |-> jsonRPCResponse(NilID, "absent", Nil)]
    ELSE [err |-> FALSE,
          resp |-> jsonRPCResponse(IF doc.id = "number" THEN IntPtr(doc.n) ELSE NilID,
                                   doc.result, doc.error)]

\* A line of the body: the characters it starts with, the JSON document that
\* follows them, and whether the line is longer than the scanner's buffer
\* of 256 KiB.
SSELine(head, doc, tooLong) == [head |-> head, doc |-> doc, tooLong |-> tooLong]

DataPrefix == "data: "

ResponseDoc(n) == JSONDoc(TRUE, "number", n, "content", Nil)

NotificationDoc == JSONDoc(TRUE, "absent", 0, "absent", Nil)

NullIdDoc == JSONDoc(TRUE, "null", 0, "content", Nil)

StringIdDoc == JSONDoc(TRUE, "string", 0, "content", Nil)

NoJSON == JSONDoc(FALSE, "absent", 0, "absent", Nil)

\* the lines a body is made of
SSELines ==
    {SSELine(DataPrefix, d, FALSE) :
        d \in {ResponseDoc(1), ResponseDoc(2), NotificationDoc, NullIdDoc,
               StringIdDoc, NoJSON}}
    \cup {SSELine("data:", ResponseDoc(1), FALSE),
          SSELine("event: ", NoJSON, FALSE),
          SSELine("", NoJSON, FALSE),
          SSELine(DataPrefix, NotificationDoc, TRUE),
          SSELine(DataPrefix, ResponseDoc(1), TRUE)}

ErrSSERead == "SSE read: bufio.Scanner: token too long"

ErrNoResponse == "no JSON-RPC response found in SSE stream"

\* what one pass of the scan loop does with a line: "return", "continue", or
\* "stop" when scanner.Scan() gives up on a line longer than its buffer
scanStepNoIdTest(line) ==
    IF line.tooLong THEN "stop"
    ELSE IF line.head # DataPrefix THEN "continue"
    ELSE IF Unmarshal(line.doc).err THEN "continue"
    ELSE "return"

scanStep(line) ==
    IF line.tooLong THEN "stop"
    ELSE IF line.head # DataPrefix THEN "continue"
    ELSE IF Unmarshal(line.doc).err THEN "continue"
    ELSE IF Unmarshal(line.doc).resp.ID # NilID THEN "return"
    ELSE "continue"

NoResult == [done |-> FALSE, err |-> Nil, resp |-> jsonRPCResponse(NilID, "absent", Nil)]

\* parseSSE from line i of the body on
RECURSIVE parseSSEFrom(_, _)
parseSSEFrom(lines, i) ==
    IF i > Len(lines)
    THEN [done |-> TRUE, err |-> ErrNoResponse, resp |-> NoResult.resp]
    ELSE LET todo == scanStep(lines[i])
         IN IF todo = "stop"
            THEN [done |-> TRUE, err |-> ErrSSERead, resp |-> NoResult.resp]
            ELSE IF todo = "return"
            THEN [done |-> TRUE, err |-> Nil, resp |-> Unmarshal(lines[i].doc).resp]
            ELSE parseSSEFrom(lines, i + 1)

parseSSE(lines) == parseSSEFrom(lines, 1)

\* lines of a body
MaxLines == 3

SSEBodies == UNION {[1..n -> SSELines] : n \in 0..MaxLines}

SSEIdle == sseBody = <<>> /\ sseScanned = 0 /\ sseResult = NoResult

SSEInit == sseBody \in SSEBodies /\ sseScanned = 0 /\ sseResult = NoResult

\* one scanner.Scan() and the body of the loop for the line it delivers
ScanLine ==
    /\ ~sseResult.done
    /\ sseScanned < Len(sseBody)
    /\ LET line == sseBody[sseScanned + 1]
           todo == scanStep(line)
       IN /\ sseScanned' = sseScanned + 1
          /\ sseResult' =
               IF todo = "stop"
               THEN [done |-> TRUE, err |-> ErrSSERead, resp |-> NoResult.resp]
               ELSE IF todo = "return"
               THEN [done |-> TRUE, err |-> Nil, resp |-> Unmarshal(line.doc).resp]
               ELSE sseResult
    /\ UNCHANGED sseBody
    /\ UNCHANGED <<filterVars, streamVars, loopVars, mcpVars, toolVars>>

\* scanner.Scan() finds the body at its end
ScanEnd ==
    /\ ~sseResult.done
    /\ sseScanned = Len(sseBody)
    /\ sseResult' = [done |-> TRUE, err |-> ErrNoResponse, resp |-> NoResult.resp]
    /\ UNCHANGED <<sseBody, sseScanned>>
    /\ UNCHANGED <<filterVars, streamVars, loopVars, mcpVars, toolVars>>

(***************************************************************************)
(* MCP: HTTP exchanges of one MCPServer                                    *)
(***************************************************************************)
SessionHeader == "Mcp-Session-Id"

\* http.CanonicalHeaderKey for the keys in use
CanonicalHeaderKey(k) == IF k = "mcp-session-id" THEN SessionHeader ELSE k

\* http.Header.Set
HeaderSet(h, k, v) ==
    [x \in DOMAIN h \cup {CanonicalHeaderKey(k)} |->
        IF x = CanonicalHeaderKey(k) THEN v ELSE h[x]]

\* for k, v := range s.cfg.Headers { httpReq.Header.Set(k, v) }
RECURSIVE setAll(_, _)
setAll(h, pairs) ==
    IF pairs = {} THEN h
    ELSE LET kv == CHOOSE x \in pairs : TRUE
         IN setAll(HeaderSet(h, kv[1], kv[2]), pairs \ {kv})

NoHeaders == [x \in {} |-> ""]

\* requestHeaders with the session token set before the configured headers
requestHeadersSessionFirst(cfg, sid) ==
    LET h1 == HeaderSet(NoHeaders, "Content-Type", "application/json")
        h2 == HeaderSet(h1, "Accept", "application/json, text/event-stream")
        h3 == IF sid # "" THEN HeaderSet(h2, SessionHeader, sid) ELSE h2
    IN setAll(h3, cfg)

\* the headers rpcCall and rpcNotify put on a request
requestHeaders(cfg, sid) ==
    LET h1 == HeaderSet(NoHeaders, "Content-Type", "application/json")
        h2 == HeaderSet(h1, "Accept", "application/json, text/event-stream")
        h3 == setAll(h2, cfg)
    IN IF sid # "" THEN HeaderSet(h3, SessionHeader, sid) ELSE h3

\* values of cfg.Headers, as sets of (key, value); no two keys of a
\* configuration have the same canonical form
HeaderConfigs ==
    {{<<"Authorization", "key">>},
     {<<"Authorization", "key">>, <<"mcp-session-id", "configured">>}}

\* session tokens a response carries in Mcp-Session-Id ("": no such header)
SessionTokens == {"", "s1", "s2"}

StatusOK == 200

\* statuses other than 200
ErrorStatuses == {500}

\* What http.DefaultClient.Do gives: arrived is FALSE when it returns an
\* error; sse says that Content-Type is text/event-stream, the body then
\* being lines, and a JSON document otherwise.
HTTPResponse(arrived, status, sid, sse, doc, lines) ==
    [arrived |-> arrived, status |-> status, sid |-> sid, sse |-> sse,
     doc |-> doc, lines |-> lines]

ErrTransport == "connection refused"

ErrHTTPStatus == "HTTP 500: "

ErrDecode == "decode response: "

\* s.sessionID after rpcCall has dealt with the response
sessionAfterCall(cur, resp) ==
    IF resp.arrived /\ resp.status = StatusOK /\ resp.sid # "" THEN resp.sid ELSE cur

\* s.sessionID after rpcNotify has dealt with the response
sessionAfterNotify(cur, resp) == cur

\* what rpcCall returns: (response, nil) or (nil, err)
rpcCall(resp) ==
    IF ~resp.arrived
    THEN [err |-> ErrTransport, resp |-> NoResult.resp]
    ELSE IF resp.status # StatusOK
    THEN [err |-> ErrHTTPStatus, resp |-> NoResult.resp]
    ELSE IF resp.sse
    THEN [err |-> parseSSE(resp.lines).err, resp |-> parseSSE(resp.lines).resp]
    ELSE IF Unmarshal(resp.doc).err
    THEN [err |-> ErrDecode, resp |-> NoResult.resp]
    ELSE [err |-> Nil, resp |-> Unmarshal(resp.doc).resp]

\* the tools of a tools/list result that names two tools
TwoTools == <<"t1", "t2">>

\* results of tools/list: a tools array with two tools, an empty tools array,
\* an object without tools, null, no result member, tools that is no array
ListResults == {"tools", "emptyTools", "noTools", "null", "absent", "badTools"}

\* json.Unmarshal(listResp.Result, &listResult) and listResult.Tools
decodeToolsStrict(result) ==
    IF result \in {"absent", "badTools", "noTools", "null"}
    THEN [err |-> TRUE, Tools |-> <<>>]
    ELSE IF result = "tools" THEN [err |-> FALSE, Tools |-> TwoTools]
    ELSE [err |-> FALSE, Tools |-> <<>>]

decodeTools(result) ==
    IF result \in {"absent", "badTools"} THEN [err |-> TRUE, Tools |-> <<>>]
    ELSE IF result = "tools" THEN [err |-> FALSE, Tools |-> TwoTools]
    ELSE [err |-> FALSE, Tools |-> <<>>]

\* goroutines that use the server: each handles one bot message
Procs == {"g1", "g2"}

Unlocked == "unlocked"

\* calls of initialize and callTool the goroutines make
MaxOps == 3

Exchange(method, headers) == [method |-> method, headers |-> headers]

NoExchange == Exchange("none", NoHeaders)

Returned(kind, what) == [kind |-> kind, text |-> what]

NoReturnYet == Returned("none", <<>>)

ReturnedNil == Returned("nil", <<>>)

\* An entry of hs: a request of the handshake, the goroutine that sent it and
\* what came of it: "sent" (no answer yet), "failed" (rpcCall or rpcNotify
\* returned an error), "rpcerror" (an answer with an error member) or
\* "answered"; result is the result member of the answer.
Step(g, method, outcome, result) ==
    [g |-> g, method |-> method, outcome |-> outcome, result |-> result]

\* what came of a request, by what rpcCall returned
outcomeOf(r) ==
    IF r.err # Nil THEN "failed" ELSE IF r.resp.Error # Nil THEN "rpcerror" ELSE "answered"

RPCErrorDoc == JSONDoc(TRUE, "number", 1, "absent", "denied")

\* exchanges that Do fails on, or that end with a status other than 200
HTTPFailures ==
    {HTTPResponse(FALSE, 0, "", FALSE, NoJSON, <<>>)}
    \cup {HTTPResponse(TRUE, st, sid, FALSE, NoJSON, <<>>) :
             st \in ErrorStatuses, sid \in SessionTokens}

JSONResponses(docs) ==
    {HTTPResponse(TRUE, StatusOK, sid, FALSE, d, <<>>) : sid \in SessionTokens, d \in docs}

\* event streams: a notification, followed or not by the response
SSEResponses(doc) ==
    {HTTPResponse(TRUE, StatusOK, sid, TRUE, NoJSON, lines) :
        sid \in {""},
        lines \in {<<SSELine(DataPrefix, NotificationDoc, FALSE),
                     SSELine(DataPrefix, doc, FALSE)>>,
                   <<SSELine(DataPrefix, NotificationDoc, FALSE)>>}}

InitializeResponses ==
    HTTPFailures
    \cup JSONResponses({JSONDoc(TRUE, "number", 1, "capabilities", Nil), RPCErrorDoc, NoJSON})
    \cup SSEResponses(JSONDoc(TRUE, "number", 1, "capabilities", Nil))

NotifyResponses == HTTPFailures \cup JSONResponses({NoJSON})

ToolsListResponses ==
    HTTPFailures
    \cup JSONResponses({JSONDoc(TRUE, "number", 2, r, Nil) : r \in ListResults}
                       \cup {RPCErrorDoc})

ToolsCallResponses ==
    HTTPFailures
    \cup JSONResponses({ResponseDoc(1), RPCErrorDoc})
    \cup SSEResponses(ResponseDoc(1))

\* initialize without the test of s.inited
initializeEntryNoTest(isInited) == "handshake"

\* initialize, once it holds the lock
initializeEntry(isInited) == IF isInited THEN "return" ELSE "handshake"

\* the method a goroutine sends next
methodAt(where) ==
    IF where = "init1" THEN "initialize"
    ELSE IF where = "notify" THEN "notifications/initialized"
    ELSE IF where = "list" THEN "tools/list"
    ELSE "tools/call"

\* afterInitialize without the test of the error member
afterInitializeIgnoreErrorField(r) == IF r.err # Nil THEN "fail" ELSE "proceed"

\* initialize after the answer to its first request
afterInitialize(r) ==
    IF r.err # Nil THEN "fail"
    ELSE IF r.resp.Error # Nil THEN "fail"
    ELSE "proceed"

\* the entry of hs for the last request, with what came of it
Answered(h, outcome, result) ==
    [h EXCEPT ![Len(h)] = Step(h[Len(h)].g, h[Len(h)].method, outcome, result)]

\* where a goroutine waits for the answer
waitingAt(where) ==
    IF where = "init1" THEN "wait1"
    ELSE IF where = "notify" THEN "waitN"
    ELSE IF where = "list" THEN "wait3"
    ELSE "waitC"

\* the characters of the error texts of rpcCall and of a JSON-RPC error
Text(s) ==
    CASE s = ErrTransport -> <<"c", "o", "n", "n", "e", "c", "t", "i", "o", "n", " ", "r", "e", "f", "u", "s", "e", "d">>
      [] s = ErrHTTPStatus -> <<"H", "T", "T", "P", " ", "5", "0", "0", ":", " ">>
      [] s = ErrDecode -> <<"d", "e", "c", "o", "d", "e", " ", "r", "e", "s", "p", "o", "n", "s", "e", ":", " ">>
      [] s = ErrSSERead -> <<"S", "S", "E", " ", "r", "e", "a", "d", ":", " ", "b", "u", "f", "i", "o", ".", "S", "c", "a", "n", "n", "e", "r", ":", " ", "t", "o", "k", "e", "n", " ", "t", "o", "o", " ", "l", "o", "n", "g">>
      [] s = ErrNoResponse -> <<"n", "o", " ", "J", "S", "O", "N", "-", "R", "P", "C", " ", "r", "e", "s", "p", "o", "n", "s", "e", " ", "f", "o", "u", "n", "d", " ", "i", "n", " ", "S", "S", "E", " ", "s", "t", "r", "e", "a", "m">>
      [] OTHER -> <<"d", "e", "n", "i", "e", "d">>

MCPErrorPrefix == <<"M", "C", "P", " ", "e", "r", "r", "o", "r", ":", " ">>

ToolErrorPrefix == <<"t", "o", "o", "l", " ", "e", "r", "r", "o", "r", ":", " ">>

DecodeResultPrefix == <<"d", "e", "c", "o", "d", "e", " ", "r", "e", "s", "u", "l", "t", ":", " ">>

\* the text of the error of json.Unmarshal
JSONSyntaxError == <<"u", "n", "e", "x", "p", "e", "c", "t", "e", "d", " ", "e", "n", "d", " ", "o", "f", " ", "J", "S", "O", "N", " ", "i", "n", "p", "u", "t">>

\* one element of callResult.Content
ContentPart(type, chars) == [Type |-> type, Text |-> chars]

\* callResult{Content, IsError}
CallResult(content, isError) == [Content |-> content, IsError |-> isError]

\* parts of a result
MaxParts == 3

PartTypes == {"text", "image"}

PartTexts == {<<>>, <<"a">>, <<"b">>}

CallResults ==
    {CallResult(c, e) :
        c \in UNION {[1..n -> {ContentPart(t, x) : t \in PartTypes, x \in PartTexts}] :
                        n \in 0..MaxParts},
        e \in BOOLEAN}

\* json.Unmarshal(resp.Result, &callResult): body is what a result with
\* content decodes to; null leaves the zero value; an absent result and a
\* content member that is no array are errors
decodeCallResult(result, body) ==
    IF result = "content" THEN [err |-> FALSE, callResult |-> body]
    ELSE IF result = "null" THEN [err |-> FALSE, callResult |-> CallResult(<<>>, FALSE)]
    ELSE [err |-> TRUE, callResult |-> CallResult(<<>>, FALSE)]

\* strings.Join(elems, sep)
RECURSIVE Join(_, _)
Join(elems, sep) ==
    IF elems = <<>> THEN <<>>
    ELSE IF Len(elems) = 1 THEN elems[1]
    ELSE elems[1] \o sep \o Join(Tail(elems), sep)

\* collectTexts appending the Text of every part
collectTextsAnyType(content) == [i \in 1..Len(content) |-> content[i].Text]

\* the loop over callResult.Content: texts of the parts of type "text"
collectTexts(content) ==
    LET sel == SelectSeq(content, LAMBDA c : c.Type = "text")
    IN [i \in 1..Len(sel) |-> sel[i].Text]

Outcome(failed, chars) == [failed |-> failed, text |-> chars]

\* callTool that returns the joined text whatever IsError says
callToolIgnoreIsError(r, body) ==
    IF r.err # Nil THEN Outcome(TRUE, Text(r.err))
    ELSE IF r.resp.Error # Nil THEN Outcome(TRUE, MCPErrorPrefix \o Text(r.resp.Error))
    ELSE LET d == decodeCallResult(r.resp.Result, body)
         IN IF d.err THEN Outcome(TRUE, DecodeResultPrefix \o JSONSyntaxError)
            ELSE Outcome(FALSE, Join(collectTexts(d.callResult.Content), <<"\n">>))

\* callTool after rpcCall has returned r: (text, nil) or ("", err)
callTool(r, body) ==
    IF r.err # Nil THEN Outcome(TRUE, Text(r.err))
    ELSE IF r.resp.Error # Nil THEN Outcome(TRUE, MCPErrorPrefix \o Text(r.resp.Error))
    ELSE LET d == decodeCallResult(r.resp.Result, body)
             result == Join(collectTexts(d.callResult.Content), <<"\n">>)
         IN IF d.err THEN Outcome(TRUE, DecodeResultPrefix \o JSONSyntaxError)
            ELSE IF d.callResult.IsError THEN Outcome(TRUE, ToolErrorPrefix \o result)
            ELSE Outcome(FALSE, result)

\* a result with one part of type "text"
OneText == CallResult(<<ContentPart("text", <<"a">>)>>, FALSE)

MCPIdle ==
    /\ mu = Unlocked /\ inited = FALSE /\ sessionID = "" /\ mcpTools = <<>>
    /\ cfgHeaders = {}
    /\ gpc = [g \in Procs |-> "off"]
    /\ inflight = [g \in Procs |-> NoExchange]
    /\ hs = <<>>
    /\ gret = [g \in Procs |-> NoReturnYet]
    /\ ops = 0
    /\ lastSid = "" /\ handshakes = 0 /\ sentInited = 0

\* LoadMCPConfig: &MCPServer{name: name, cfg: cfg}
MCPInit ==
    /\ mu = Unlocked /\ inited = FALSE /\ sessionID = "" /\ mcpTools = <<>>
    /\ cfgHeaders \in HeaderConfigs
    /\ gpc = [g \in Procs |-> "idle"]
    /\ inflight = [g \in Procs |-> NoExchange]
    /\ hs = <<>>
    /\ gret = [g \in Procs |-> NoReturnYet]
    /\ ops = 0
    /\ lastSid = "" /\ handshakes = 0 /\ sentInited = 0

\* InitServers: srv.initialize(), which waits for s.mu
CallInitialize(g) ==
    /\ gpc[g] = "idle" /\ ops < MaxOps
    /\ gpc' = [gpc EXCEPT ![g] = "initLock"]
    /\ ops' = ops + 1
    /\ gret' = [gret EXCEPT ![g] = NoReturnYet]
    /\ UNCHANGED <<mu, inited, sessionID, mcpTools, cfgHeaders, inflight, hs, lastSid,
                   handshakes, sentInited>>
    /\ UNCHANGED <<filterVars, streamVars, loopVars, sseVars, toolVars>>

\* initialize: s.mu.Lock(), and the return when the server is initialized
InitEnter(g) ==
    /\ gpc[g] = "initLock" /\ mu = Unlocked
    /\ IF initializeEntry(inited) = "return"
       THEN /\ gpc' = [gpc EXCEPT ![g] = "idle"]
            /\ gret' = [gret EXCEPT ![g] = ReturnedNil]
            /\ UNCHANGED <<mu, hs>>
       ELSE /\ gpc' = [gpc EXCEPT ![g] = "init1"]
            /\ mu' = g
            /\ hs' = <<>>
            /\ UNCHANGED gret
    /\ UNCHANGED <<inited, sessionID, mcpTools, cfgHeaders, inflight, ops, lastSid,
                   handshakes, sentInited>>
    /\ UNCHANGED <<filterVars, streamVars, loopVars, sseVars, toolVars>>

\* ExecuteTool: srv.callTool(toolName, args)
CallTool(g) ==
    /\ gpc[g] = "idle" /\ ops < MaxOps
    /\ gpc' = [gpc EXCEPT ![g] = "call"]
    /\ ops' = ops + 1
    /\ gret' = [gret EXCEPT ![g] = NoReturnYet]
    /\ UNCHANGED <<mu, inited, sessionID, mcpTools, cfgHeaders, inflight, hs, lastSid,
                   handshakes, sentInited>>
    /\ UNCHANGED <<filterVars, streamVars, loopVars, sseVars, toolVars>>

\* rpcCall and rpcNotify up to http.DefaultClient.Do: the request is built
\* with the headers and handed to the client
Send(g) ==
    /\ gpc[g] \in {"init1", "notify", "list", "call"}
    /\ inflight' = [inflight EXCEPT ![g] =
                       Exchange(methodAt(gpc[g]), requestHeaders(cfgHeaders, sessionID))]
    /\ gpc' = [gpc EXCEPT ![g] = waitingAt(gpc[g])]
    /\ hs' = IF gpc[g] = "call" THEN hs
             ELSE Append(hs, Step(g, methodAt(gpc[g]), "sent", "absent"))
    /\ sentInited' = IF inited /\ gpc[g] # "call" THEN sentInited + 1 ELSE sentInited
    /\ UNCHANGED <<mu, inited, sessionID, mcpTools, cfgHeaders, gret, ops, lastSid,
                   handshakes>>
    /\ UNCHANGED <<filterVars, streamVars, loopVars, sseVars, toolVars>>

\* initialize, step 1: rpcCall returns
RecvInitialize(g, resp) ==
    /\ gpc[g] = "wait1"
    /\ LET r == rpcCall(resp)
           ok == afterInitialize(r) = "proceed"
       IN /\ sessionID' = sessionAfterCall(sessionID, resp)
          /\ lastSid' = resp.sid
          /\ inflight' = [inflight EXCEPT ![g] = NoExchange]
          /\ hs' = Answered(hs, outcomeOf(r), r.resp.Result)
          /\ IF ok
             THEN /\ gpc' = [gpc EXCEPT ![g] = "notify"]
                  /\ UNCHANGED <<mu, gret>>
             ELSE /\ gpc' = [gpc EXCEPT ![g] = "idle"]
                  /\ mu' = Unlocked
                  /\ gret' = [gret EXCEPT ![g] =
                        Returned("error", <<"initialize: ",
                                            IF r.err # Nil THEN r.err ELSE r.resp.Error>>)]
    /\ UNCHANGED <<inited, mcpTools, cfgHeaders, ops, handshakes, sentInited>>
    /\ UNCHANGED <<filterVars, streamVars, loopVars, sseVars, toolVars>>

\* initialize, step 2: rpcNotify returns, and its error is dropped
RecvNotify(g, resp) ==
    /\ gpc[g] = "waitN"
    /\ sessionID' = sessionAfterNotify(sessionID, resp)
    /\ lastSid' = resp.sid
    /\ inflight' = [inflight EXCEPT ![g] = NoExchange]
    /\ hs' = Answered(hs, IF resp.arrived THEN "answered" ELSE "failed", "absent")
    /\ gpc' = [gpc EXCEPT ![g] = "list"]
    /\ UNCHANGED <<mu, inited, mcpTools, cfgHeaders, gret, ops, handshakes, sentInited>>
    /\ UNCHANGED <<filterVars, streamVars, loopVars, sseVars, toolVars>>

\* initialize, step 3: rpcCall returns, the tools are decoded and cached
RecvToolsList(g, resp) ==
    /\ gpc[g] = "wait3"
    /\ LET r == rpcCall(resp)
           answered == r.err = Nil /\ r.resp.Error = Nil
           d == decodeTools(r.resp.Result)
           ok == answered /\ ~d.err
       IN /\ sessionID' = sessionAfterCall(sessionID, resp)
          /\ lastSid' = resp.sid
          /\ inflight' = [inflight EXCEPT ![g] = NoExchange]
          /\ hs' = Answered(hs, outcomeOf(r), r.resp.Result)
          /\ gpc' = [gpc EXCEPT ![g] = "idle"]
          /\ mu' = Unlocked
          /\ IF ok
             THEN /\ mcpTools' = d.Tools
                  /\ inited' = TRUE
                  /\ handshakes' = handshakes + 1
                  /\ gret' = [gret EXCEPT ![g] = ReturnedNil]
             ELSE /\ gret' = [gret EXCEPT ![g] =
                        Returned("error",
                                 IF r.err # Nil THEN <<"tools/list: ", r.err>>
                                 ELSE IF r.resp.Error # Nil THEN <<"tools/list: ", r.resp.Error>>
                                 ELSE <<"tools/list decode: ", "json">>)]
                  /\ UNCHANGED <<mcpTools, inited, handshakes>>
    /\ UNCHANGED <<cfgHeaders, ops, sentInited>>
    /\ UNCHANGED <<filterVars, streamVars, loopVars, sseVars, toolVars>>

\* callTool: rpcCall returns
RecvToolsCall(g, resp) ==
    /\ gpc[g] = "waitC"
    /\ LET r == rpcCall(resp)
       IN /\ sessionID' = sessionAfterCall(sessionID, resp)
          /\ lastSid' = resp.sid
          /\ inflight' = [inflight EXCEPT ![g] = NoExchange]
          /\ gpc' = [gpc EXCEPT ![g] = "idle"]
          /\ gret' = [gret EXCEPT ![g] =
                IF callTool(r, OneText).failed
                THEN Returned("error", callTool(r, OneText).text)
                ELSE Returned("text", callTool(r, OneText).text)]
    /\ UNCHANGED <<mu, inited, mcpTools, cfgHeaders, hs, ops, handshakes, sentInited>>
    /\ UNCHANGED <<filterVars, streamVars, loopVars, sseVars, toolVars>>

(***************************************************************************)
(* callTool: what a tools/call exchange returns, and the tool message      *)
(***************************************************************************)
\* answers to a tools/call request
CallResponses ==
    {HTTPResponse(FALSE, 0, "", FALSE, NoJSON, <<>>),
     HTTPResponse(TRUE, 500, "", FALSE, NoJSON, <<>>)}
    \cup {HTTPResponse(TRUE, StatusOK, "", FALSE, d, <<>>) :
             d \in {JSONDoc(TRUE, "number", 1, r, Nil) : r \in {"content", "null", "absent"}}
                   \cup {RPCErrorDoc, NoJSON}}
    \cup SSEResponses(ResponseDoc(1))

\* the tool call of the model that names a remote tool
RemoteCall == ToolCall(<<"c">>, TypeFunction, <<"s", "_", "_", "t">>, <<"{", "}">>)

NoOutcome == Outcome(FALSE, <<>>)

NoMessage == Message(RoleTool, <<>>, <<>>, <<>>)

CallIdle ==
    /\ ctSilent = FALSE /\ ctResp = HTTPResponse(FALSE, 0, "", FALSE, NoJSON, <<>>)
    /\ ctBody = CallResult(<<>>, FALSE)
    /\ ctKind = "none" /\ ctCap = 0 /\ ctPc = "off"
    /\ ctRet = NoOutcome /\ ctMsg = NoMessage

\* rpcCall has handed the tools/call request to http.DefaultClient.Do
CallInit ==
    /\ ctSilent \in BOOLEAN
    /\ ctResp \in CallResponses
    /\ ctBody \in CallResults
    /\ ctKind \in Loops
    /\ ctCap \in ResultCaps
    /\ ctPc = "waiting"
    /\ ctRet = NoOutcome /\ ctMsg = NoMessage

\* Do returns once the server has answered or the connection has failed,
\* and callTool returns to the loop through ExecuteTool
DoReturns ==
    /\ ctPc = "waiting" /\ ~ctSilent
    /\ ctRet' = callTool(rpcCall(ctResp), ctBody)
    /\ ctPc' = "returned"
    /\ UNCHANGED <<ctSilent, ctResp, ctBody, ctKind, ctCap, ctMsg>>
    /\ UNCHANGED <<filterVars, streamVars, loopVars, sseVars, mcpVars, mgrVars, subVars, moreVars>>

\* the loop builds the tool message of the call and goes on
AppendToolMessage ==
    /\ ctPc = "returned"
    /\ ctMsg' = toolMessage(ctKind, ctCap, RemoteCall, ctRet)
    /\ ctPc' = "next"
    /\ UNCHANGED <<ctSilent, ctResp, ctBody, ctKind, ctCap, ctRet>>
    /\ UNCHANGED <<filterVars, streamVars, loopVars, sseVars, mcpVars, mgrVars, subVars, moreVars>>

(***************************************************************************)
(* MCPManager: handshakes on demand, offered definitions, dispatch         *)
(***************************************************************************)
ServerGH == <<"g", "h">>

ServerFS == <<"f", "s">>

\* the names of mcp.json
Servers == {ServerGH, ServerFS}

\* a name that mcp.json does not hold
ServerZZ == <<"z", "z">>

Separator == <<"_", "_">>

ToolLS == <<"l", "s">>

\* the registry of built-in tools
Builtins == {<<"w", "e", "b">>}

\* strings.Contains(s, sub)
Contains(s, sub) == Index(s, sub) >= 0

\* strings.LastIndex(s, sub)
LastIndex(s, sub) ==
    LET hits == {i \in 0..(Len(s) - Len(sub)) : Slice(s, i, i + Len(sub)) = sub}
    IN IF hits = {} THEN -1 ELSE CHOOSE i \in hits : \A j \in hits : i >= j

\* a split at the last separator
splitLast(s) ==
    LET i == LastIndex(s, Separator)
    IN IF i < 0 THEN <<s>> ELSE <<Slice(s, 0, i), Slice(s, i + Len(Separator), Len(s))>>

\* strings.SplitN(s, "__", 2)
splitN2(s) ==
    LET i == Index(s, Separator)
    IN IF i < 0 THEN <<s>> ELSE <<Slice(s, 0, i), Slice(s, i + Len(Separator), Len(s))>>

InvalidName == <<"i", "n", "v", "a", "l", "i", "d", " ", "M", "C", "P", " ", "t", "o", "o", "l", " ", "n", "a", "m", "e", " ">>

UnknownServer == <<"u", "n", "k", "n", "o", "w", "n", " ", "M", "C", "P", " ", "s", "e", "r", "v", "e", "r", " ">>

MCPPrefix == <<"M", "C", "P", " ">>

InitializePrefix == <<"i", "n", "i", "t", "i", "a", "l", "i", "z", "e", ":", " ">>

\* where a tool call goes: "builtin", "remote" (callTool of a server) or
\* "error" with the text of the error
Route(route, server, tool, chars, isInited) ==
    [route |-> route, server |-> server, tool |-> tool, text |-> chars, inited |-> isInited]

NoRoute == Route("none", <<>>, <<>>, <<>>, FALSE)

\* MCPManager.ExecuteTool up to srv.callTool
ExecuteTool(servers, qualifiedName) ==
    LET parts == splitN2(qualifiedName)
    IN IF Len(parts) # 2
       THEN Route("error", <<>>, <<>>, InvalidName \o Quote(qualifiedName), FALSE)
       ELSE IF parts[1] \notin DOMAIN servers
       THEN Route("error", <<>>, <<>>, UnknownServer \o Quote(parts[1]), FALSE)
       ELSE Route("remote", parts[1], parts[2], <<>>, servers[parts[1]].inited)

\* the executor of makeToolExec
toolExec(has, servers, name) ==
    IF name \in Builtins THEN Route("builtin", <<>>, name, <<>>, FALSE)
    ELSE IF has /\ Contains(name, Separator) THEN ExecuteTool(servers, name)
    ELSE Route("error", <<>>, <<>>, UnknownTool \o Quote(name), FALSE)

\* MCPServer as the manager sees it
Server(enabled, isInited, tls) == [enabled |-> enabled, inited |-> isInited, tools |-> tls]

\* what a server answers to a handshake: its tools, or a failure of a step
HandshakeAnswer(ok, tls, chars) == [ok |-> ok, tools |-> tls, text |-> chars]

HandshakeAnswers ==
    {HandshakeAnswer(TRUE, <<ToolLS>>, <<>>),
     HandshakeAnswer(FALSE, <<>>, InitializePrefix \o Text(ErrTransport))}

\* srv.initialize() as a whole: nothing when inited, else the handshake
initialize(srv, answer) ==
    IF srv.inited THEN [srv |-> srv, failed |-> FALSE, text |-> <<>>, contacted |-> FALSE]
    ELSE IF ~answer.ok
    THEN [srv |-> srv, failed |-> TRUE, text |-> answer.text, contacted |-> TRUE]
    ELSE [srv |-> Server(srv.enabled, TRUE, answer.tools), failed |-> FALSE, text |-> <<>>,
          contacted |-> TRUE]

\* what a call into the manager did: the error its caller received, the
\* servers whose handshake failed in it and the servers it contacted
Call(op, failed, chars, hsFailed, contacted) ==
    [op |-> op, failed |-> failed, text |-> chars, hsFailed |-> hsFailed,
     contacted |-> contacted]

NoCall == Call("none", FALSE, <<>>, {}, {})

\* InitServers over names, in order, returning at the first error
RECURSIVE InitServers(_, _, _, _)
InitServers(servers, names, answers, done) ==
    IF names = <<>>
    THEN [servers |-> servers, call |-> Call("InitServers", FALSE, <<>>, {}, done)]
    ELSE LET name == Head(names)
         IN IF name \notin DOMAIN servers
            THEN [servers |-> servers,
                  call |-> Call("InitServers", TRUE, UnknownServer \o Quote(name), {}, done)]
            ELSE LET r == initialize(servers[name], answers[name])
                     seen == IF r.contacted THEN done \cup {name} ELSE done
                 IN IF r.failed
                    THEN [servers |-> servers,
                          call |-> Call("InitServers", TRUE,
                                        MCPPrefix \o name \o <<":", " ">> \o r.text,
                                        {name}, seen)]
                    ELSE InitServers([servers EXCEPT ![name] = r.srv], Tail(names),
                                     answers, seen)

\* InitEnabled: initialize on every enabled server, the error logged
InitEnabled(servers, answers) ==
    LET r(n) == initialize(servers[n], answers[n])
        on == {n \in DOMAIN servers : servers[n].enabled}
    IN [servers |-> [n \in DOMAIN servers |-> IF n \in on THEN r(n).srv ELSE servers[n]],
        call |-> Call("InitEnabled", FALSE, <<>>, {n \in on : r(n).failed},
                      {n \in on : r(n).contacted})]

Range(f) == {f[i] : i \in DOMAIN f}

\* ActiveToolDefs offering the tools of every initialized server
ActiveToolDefsAllInited(servers, extraNames) ==
    UNION {{n \o Separator \o t : t \in Range(servers[n].tools)} :
              n \in {m \in DOMAIN servers : servers[m].inited}}

\* ActiveToolDefs: the names of the definitions returned. extraNames have
\* passed InitServers, so each is a key of m.servers.
ActiveToolDefs(servers, extraNames) ==
    LET activeSet == {n \in DOMAIN servers : servers[n].enabled /\ servers[n].inited}
                     \cup Range(extraNames)
    IN UNION {{n \o Separator \o t : t \in Range(servers[n].tools)} :
                 n \in {m \in activeSet : servers[m].inited}}

\* /mcp prefixes and -enable-mcp lists
NameLists ==
    {<<>>, <<ServerGH>>, <<ServerFS>>, <<ServerZZ>>, <<ServerGH, ServerFS>>,
     <<ServerGH, ServerZZ>>, <<ServerZZ, ServerFS>>}

\* names of tools the model may call
CalledNames ==
    Builtins
    \cup {<<"b", "a", "d">>, <<"a", "_", "b">>,
          ServerGH \o Separator \o ToolLS,
          ServerGH \o Separator \o <<"a">> \o Separator \o <<"b">>,
          ServerGH \o <<"_">> \o Separator \o ToolLS,
          ServerFS \o Separator \o ToolLS,
          ServerZZ \o Separator \o ToolLS,
          Separator \o ToolLS,
          ServerGH \o Separator}

\* queries of one run
MaxQueries == 2

MgrIdle ==
    /\ mgrHas = FALSE
    /\ mgrServers = [n \in Servers |-> Server(FALSE, FALSE, <<>>)]
    /\ mgrPc = "off" /\ mgrQueries = 0 /\ mgrNames = <<>> /\ mgrDefs = {}
    /\ mgrLast = NoCall /\ mgrRoute = NoRoute

\* main after LoadMCPConfig, or without mcp.json
MgrInit ==
    /\ mgrHas \in BOOLEAN
    /\ mgrServers \in [Servers -> {Server(e, FALSE, <<>>) : e \in BOOLEAN}]
    /\ mgrHas \/ \A n \in Servers : ~mgrServers[n].enabled
    /\ mgrPc = IF mgrHas THEN "start" ELSE "ready"
    /\ mgrQueries = 0 /\ mgrNames = <<>> /\ mgrDefs = {}
    /\ mgrLast = NoCall /\ mgrRoute = NoRoute

\* main: mcpMgr.InitEnabled(logf)
Startup(answers) ==
    /\ mgrPc = "start"
    /\ mgrServers' = InitEnabled(mgrServers, answers).servers
    /\ mgrLast' = InitEnabled(mgrServers, answers).call
    /\ mgrPc' = "ready"
    /\ UNCHANGED <<mgrHas, mgrQueries, mgrNames, mgrDefs, mgrRoute>>
    /\ UNCHANGED <<filterVars, streamVars, loopVars, sseVars, mcpVars, callVars, subVars, moreVars>>

\* handleBotMessage and main: the servers named for the query are
\* initialized, and the query is given up when that fails
BeginQuery(names, answers) ==
    /\ mgrPc = "ready" /\ mgrQueries < MaxQueries
    /\ mgrHas \/ names = <<>>
    /\ mgrQueries' = mgrQueries + 1
    /\ LET r == InitServers(mgrServers, names, answers, {})
       IN /\ mgrServers' = r.servers
          /\ mgrLast' = r.call
          /\ IF r.call.failed
             THEN UNCHANGED <<mgrPc, mgrNames>>
             ELSE mgrPc' = "query" /\ mgrNames' = names
    /\ mgrDefs' = {}
    /\ mgrRoute' = NoRoute
    /\ UNCHANGED mgrHas
    /\ UNCHANGED <<filterVars, streamVars, loopVars, sseVars, mcpVars, callVars, subVars, moreVars>>

\* runQuery and runMailSummary: the definitions offered to the model
OfferTools ==
    /\ mgrPc = "query"
    /\ mgrDefs' = IF mgrHas THEN ActiveToolDefs(mgrServers, mgrNames) ELSE {}
    /\ mgrLast' = Call("ActiveToolDefs", FALSE, <<>>, {}, {})
    /\ mgrPc' = "loop"
    /\ UNCHANGED <<mgrHas, mgrServers, mgrQueries, mgrNames, mgrRoute>>
    /\ UNCHANGED <<filterVars, streamVars, loopVars, sseVars, mcpVars, callVars, subVars, moreVars>>

\* the loop executes a tool call of the model through the executor
ExecNamed(name) ==
    /\ mgrPc = "loop"
    /\ mgrRoute' = toolExec(mgrHas, mgrServers, name)
    /\ mgrLast' = Call("exec", mgrRoute'.route = "error", mgrRoute'.text, {},
                       IF mgrRoute'.route = "remote" THEN {mgrRoute'.server} ELSE {})
    /\ UNCHANGED <<mgrHas, mgrServers, mgrPc, mgrQueries, mgrNames, mgrDefs>>
    /\ UNCHANGED <<filterVars, streamVars, loopVars, sseVars, mcpVars, callVars, subVars, moreVars>>

\* the query returns
EndQuery ==
    /\ mgrPc = "loop"
    /\ mgrPc' = "ready"
    /\ mgrLast' = NoCall
    /\ mgrRoute' = NoRoute
    /\ UNCHANGED <<mgrHas, mgrServers, mgrQueries, mgrNames, mgrDefs>>
    /\ UNCHANGED <<filterVars, streamVars, loopVars, sseVars, mcpVars, callVars, subVars, moreVars>>

(***************************************************************************)
(* tools.SubAgentFn                                                        *)
(***************************************************************************)
\* goroutines that run a top-level loop: one per bot message
Handlers == {"h1", "h2"}

\* invocations of SubAgentFn by one loop
MaxInvocations == 2

\* the model's call of web_fetch_summarize
CallS == ToolCall(<<"s">>, TypeFunction, <<"w", "f", "s">>, <<"{", "}">>)

SummarizeFailed == <<"s", "u", "m", "m", "a", "r", "i", "z", "a", "t", "i", "o", "n", " ", "f", "a", "i", "l", "e", "d", ":", " ">>

\* the prompt and the page that executeWebFetchSummarize hands over
SubPrompts == {<<"P">>}

SubPayloads == {<<"p", "a", "g", "e">>}

\* what doSubAgentStream and doChat return: a text, or an error
SubAnswers == {Outcome(FALSE, <<"s", "u", "m">>), Outcome(FALSE, <<>>),
               Outcome(TRUE, <<"E", "O", "F">>)}

\* msgs of SubAgentFn; the messages of the caller are not in reach
subConversation(systemPrompt, userMessage) ==
    <<Message(RoleSystem, systemPrompt, <<>>, <<>>),
      Message(RoleUser, userMessage, <<>>, <<>>)>>

\* the deferred Add(-1) skipped on an error return
afterReturnLeak(depth, failed) == IF failed THEN depth ELSE depth - 1

\* SubAgentDepth after the deferred Add(-1)
afterReturn(depth, failed) == depth - 1

\* executeWebFetchSummarize: the summary, or the error wrapped
summarizeResult(answer) ==
    IF answer.failed THEN Outcome(TRUE, SummarizeFailed \o answer.text) ELSE answer

\* the conversation of a loop whose model has just called the tool
ParentAtCall ==
    <<Message(RoleSystem, SystemPrompt, <<>>, <<>>),
      Message(RoleUser, UserQuery, <<>>, <<>>),
      Message(RoleAssistant, <<>>, <<CallS>>, <<>>)>>

\* Load has not been called
NoRead == <<>>

SubIdle ==
    /\ saDepth = 0 /\ saShow = FALSE
    /\ saPc = [g \in Handlers |-> "off"]
    /\ saMsgs = [g \in Handlers |-> <<>>]
    /\ saParent = [g \in Handlers |-> <<>>]
    /\ saRead = [g \in Handlers |-> NoRead]
    /\ saRet = [g \in Handlers |-> NoOutcome]
    /\ saCalls = [g \in Handlers |-> 0]

\* the bot with a loop running in every handler
SubInit ==
    /\ saDepth = 0 /\ saShow \in BOOLEAN
    /\ saPc = [g \in Handlers |-> "loop"]
    /\ saMsgs = [g \in Handlers |-> <<>>]
    /\ saParent = [g \in Handlers |-> ParentAtCall]
    /\ saRead = [g \in Handlers |-> NoRead]
    /\ saRet = [g \in Handlers |-> NoOutcome]
    /\ saCalls = [g \in Handlers |-> 0]

\* SubAgentFn is entered: Add(1), the defer, and msgs
Enter(g, systemPrompt, userMessage) ==
    /\ saPc[g] = "loop" /\ saCalls[g] < MaxInvocations
    /\ saDepth' = saDepth + 1
    /\ saMsgs' = [saMsgs EXCEPT ![g] = subConversation(systemPrompt, userMessage)]
    /\ saPc' = [saPc EXCEPT ![g] = IF saShow THEN "entered" ELSE "running"]
    /\ saCalls' = [saCalls EXCEPT ![g] = saCalls[g] + 1]
    /\ saRead' = [saRead EXCEPT ![g] = NoRead]
    /\ UNCHANGED <<saShow, saParent, saRet>>
    /\ UNCHANGED <<filterVars, streamVars, loopVars, sseVars, mcpVars, callVars, mgrVars, moreVars>>

\* showSA: the prefix is built from SubAgentDepth.Load()
LoadDepth(g) ==
    /\ saPc[g] = "entered"
    /\ saRead' = [saRead EXCEPT ![g] = <<saDepth>>]
    /\ saPc' = [saPc EXCEPT ![g] = "running"]
    /\ UNCHANGED <<saDepth, saShow, saMsgs, saParent, saRet, saCalls>>
    /\ UNCHANGED <<filterVars, streamVars, loopVars, sseVars, mcpVars, callVars, mgrVars, moreVars>>

\* doSubAgentStream or doChat returns, SubAgentFn returns through the defer
\* and executeWebFetchSummarize returns to the loop
Leave(g, answer) ==
    /\ saPc[g] = "running"
    /\ saDepth' = afterReturn(saDepth, answer.failed)
    /\ saRet' = [saRet EXCEPT ![g] = summarizeResult(answer)]
    /\ saPc' = [saPc EXCEPT ![g] = "returned"]
    /\ UNCHANGED <<saShow, saMsgs, saParent, saRead, saCalls>>
    /\ UNCHANGED <<filterVars, streamVars, loopVars, sseVars, mcpVars, callVars, mgrVars, moreVars>>

\* the loop appends the tool message of the call
AppendResult(g) ==
    /\ saPc[g] = "returned"
    /\ saParent' = [saParent EXCEPT ![g] = Append(saParent[g],
                                                 toolMessage("query", 0, CallS, saRet[g]))]
    /\ saPc' = [saPc EXCEPT ![g] = "loop"]
    /\ UNCHANGED <<saDepth, saShow, saMsgs, saRead, saRet, saCalls>>
    /\ UNCHANGED <<filterVars, streamVars, loopVars, sseVars, mcpVars, callVars, mgrVars, moreVars>>

(***************************************************************************)
(* doStream: the lines of the response body                                *)
(***************************************************************************)
\* lines of a response body
MaxBodyLines == 3

\* streamDelta of the choice a chunk carries
Delta(content, reasoning, tcs) ==
    [Content |-> content, ReasoningContent |-> reasoning, ToolCalls |-> tcs]

NoDelta == Delta(<<>>, <<>>, <<>>)

\* One line of the body.  kind is "other" for a line without the "data: "
\* prefix, "bad" for a data line that json.Unmarshal rejects, "done" for
\* "data: [DONE]" and "chunk" for a data line holding a streamChunk; long
\* tells that the line does not fit the scanner's buffer.
Line(kind, long, delta) == [kind |-> kind, long |-> long, delta |-> delta]

ContentDeltas == {<<>>, <<"a">>, <<"<", "t", "h">>, TagOpen, TagClose}

ReasoningDeltas == {<<>>, <<"r">>}

ChunkLines ==
    {Line("chunk", FALSE, Delta(c, r, <<>>)) : c \in ContentDeltas, r \in ReasoningDeltas}
    \cup {Line("chunk", FALSE, Delta(<<>>, <<>>, fr)) :
             fr \in {f \in FragmentsOf(0) : Len(f) = 1}}

Lines ==
    ChunkLines
    \cup {Line("other", FALSE, NoDelta), Line("other", TRUE, NoDelta),
          Line("bad", FALSE, NoDelta), Line("done", FALSE, NoDelta)}

RECURSIVE BodiesOf(_)
BodiesOf(n) ==
    IF n = 0 THEN {<<>>}
    ELSE LET prev == BodiesOf(n - 1) IN prev \cup {Append(b, l) : b \in prev, l \in Lines}

\* result.Content, tcMap, hadReasoning, the filter's fields, and the text
\* written to contentOut
Acc(content, m, had, act, pend, written) ==
    [Content |-> content, tcMap |-> m, hadReasoning |-> had,
     active |-> act, pending |-> pend, contentOut |-> written]

NewAcc == Acc(<<>>, EmptyMap, FALSE, FALSE, <<>>, <<>>)

RECURSIVE accumulateAll(_, _)
accumulateAll(m, tcs) ==
    IF tcs = <<>> THEN m ELSE accumulateAll(accumulate(m, Head(tcs)), Tail(tcs))

\* the body of `for _, choice := range chunk.Choices`
decodeChoice(acc, d) ==
    LET had == acc.hadReasoning \/ d.ReasoningContent # <<>>
        f == process([active |-> acc.active, pending |-> acc.pending, out |-> <<>>],
                     d.Content)
        a1 == [acc EXCEPT !.hadReasoning = had]
        a2 == IF d.Content = <<>> THEN a1
              ELSE IF had
              THEN [a1 EXCEPT !.Content = @ \o d.Content, !.contentOut = @ \o d.Content]
              ELSE [a1 EXCEPT !.Content = @ \o d.Content,
                              !.active = f.active, !.pending = f.pending,
                              !.contentOut = @ \o Visible(f.out)]
    IN [a2 EXCEPT !.tcMap = accumulateAll(@, d.ToolCalls)]

\* one pass of `for scanner.Scan()` that goes on to the next line although
\* the payload is [DONE]
streamStepNoBreak(acc, line) ==
    IF line.long THEN [acc |-> acc, next |-> "fail"]
    ELSE IF line.kind = "chunk" THEN [acc |-> decodeChoice(acc, line.delta), next |-> "continue"]
    ELSE [acc |-> acc, next |-> "continue"]

\* one pass that gives up on a payload json.Unmarshal rejects
streamStepBadFatal(acc, line) ==
    IF line.long \/ line.kind = "bad" THEN [acc |-> acc, next |-> "fail"]
    ELSE IF line.kind = "other" THEN [acc |-> acc, next |-> "continue"]
    ELSE IF line.kind = "done" THEN [acc |-> acc, next |-> "break"]
    ELSE [acc |-> decodeChoice(acc, line.delta), next |-> "continue"]

\* One pass of `for scanner.Scan()`: Scan fails on a line longer than the
\* buffer; a line without the prefix and a payload that is not a chunk are
\* passed over; [DONE] leaves the loop.
streamStep(acc, line) ==
    IF line.long THEN [acc |-> acc, next |-> "fail"]
    ELSE IF line.kind = "other" THEN [acc |-> acc, next |-> "continue"]
    ELSE IF line.kind = "done" THEN [acc |-> acc, next |-> "break"]
    ELSE IF line.kind = "bad" THEN [acc |-> acc, next |-> "continue"]
    ELSE [acc |-> decodeChoice(acc, line.delta), next |-> "continue"]

StreamReadError ==
    <<"s", "t", "r", "e", "a", "m", " ", "r", "e", "a", "d", " ", "e", "r", "r", "o", "r">>

\* fmt.Errorf("stream read error: %w", err)
StreamError == [failed |-> TRUE, Content |-> StreamReadError, ToolCalls |-> <<>>]

NoStreamResult == StreamResult(<<>>, <<>>)

\* doStream after the loop: the filter is flushed, then scanner.Err() is
\* looked at, then the tool calls are put into the result
afterLoop(acc, failed) ==
    LET f == flush([active |-> acc.active, pending |-> acc.pending, out |-> <<>>])
    IN [acc |-> [acc EXCEPT !.active = f.active, !.pending = f.pending,
                            !.contentOut = @ \o Visible(f.out)],
        ret |-> IF failed THEN StreamError
                ELSE StreamResult(acc.Content, finalize(acc.tcMap))]

\* the loop of doStream over the lines of a body
RECURSIVE streamLoop(_, _)
streamLoop(lines, acc) ==
    IF lines = <<>> THEN [acc |-> acc, failed |-> FALSE]
    ELSE LET s == streamStep(acc, Head(lines))
         IN IF s.next = "fail" THEN [acc |-> s.acc, failed |-> TRUE]
            ELSE IF s.next = "break" THEN [acc |-> s.acc, failed |-> FALSE]
            ELSE streamLoop(Tail(lines), s.acc)

\* what doStream returns for a body
doStream(lines) ==
    LET l == streamLoop(lines, NewAcc) IN afterLoop(l.acc, l.failed).ret

BodyIdle ==
    /\ bdBody = <<>> /\ bdPos = 0 /\ bdAcc = NewAcc /\ bdPc = "off"
    /\ bdRet = NoStreamResult

\* doStream has received the response with status 200
BodyInit ==
    /\ bdBody \in BodiesOf(MaxBodyLines)
    /\ bdPos = 0 /\ bdAcc = NewAcc /\ bdPc = "scan" /\ bdRet = NoStreamResult

\* the scanner hands out a line that is passed over
SkipLine ==
    /\ bdPc = "scan" /\ bdPos < Len(bdBody)
    /\ bdBody[bdPos + 1].kind # "chunk"
    /\ streamStep(bdAcc, bdBody[bdPos + 1]).next = "continue"
    /\ bdAcc' = streamStep(bdAcc, bdBody[bdPos + 1]).acc
    /\ bdPos' = bdPos + 1
    /\ UNCHANGED <<bdBody, bdPc, bdRet>>
    /\ UNCHANGED <<filterVars, streamVars, loopVars, sseVars, mcpVars, callVars, mgrVars, subVars>>
    /\ UNCHANGED <<botVars, splitVars, newsVars>>

\* the scanner hands out a line holding a chunk
DecodeChunk ==
    /\ bdPc = "scan" /\ bdPos < Len(bdBody)
    /\ bdBody[bdPos + 1].kind = "chunk"
    /\ streamStep(bdAcc, bdBody[bdPos + 1]).next = "continue"
    /\ bdAcc' = streamStep(bdAcc, bdBody[bdPos + 1]).acc
    /\ bdPos' = bdPos + 1
    /\ UNCHANGED <<bdBody, bdPc, bdRet>>
    /\ UNCHANGED <<filterVars, streamVars, loopVars, sseVars, mcpVars, callVars, mgrVars, subVars>>
    /\ UNCHANGED <<botVars, splitVars, newsVars>>

\* the scanner hands out data: [DONE]; doStream leaves the loop and returns
ReadDone ==
    /\ bdPc = "scan" /\ bdPos < Len(bdBody)
    /\ streamStep(bdAcc, bdBody[bdPos + 1]).next = "break"
    /\ bdAcc' = afterLoop(bdAcc, FALSE).acc
    /\ bdRet' = afterLoop(bdAcc, FALSE).ret
    /\ bdPos' = bdPos + 1
    /\ bdPc' = "returned"
    /\ UNCHANGED bdBody
    /\ UNCHANGED <<filterVars, streamVars, loopVars, sseVars, mcpVars, callVars, mgrVars, subVars>>
    /\ UNCHANGED <<botVars, splitVars, newsVars>>

\* Scan meets a line longer than its buffer; doStream returns the error
TokenTooLong ==
    /\ bdPc = "scan" /\ bdPos < Len(bdBody)
    /\ streamStep(bdAcc, bdBody[bdPos + 1]).next = "fail"
    /\ bdAcc' = afterLoop(bdAcc, TRUE).acc
    /\ bdRet' = afterLoop(bdAcc, TRUE).ret
    /\ bdPc' = "returned"
    /\ UNCHANGED <<bdBody, bdPos>>
    /\ UNCHANGED <<filterVars, streamVars, loopVars, sseVars, mcpVars, callVars, mgrVars, subVars>>
    /\ UNCHANGED <<botVars, splitVars, newsVars>>

\* the body ends; doStream returns
EndOfBody ==
    /\ bdPc = "scan" /\ bdPos = Len(bdBody)
    /\ bdAcc' = afterLoop(bdAcc, FALSE).acc
    /\ bdRet' = afterLoop(bdAcc, FALSE).ret
    /\ bdPc' = "returned"
    /\ UNCHANGED <<bdBody, bdPos>>
    /\ UNCHANGED <<filterVars, streamVars, loopVars, sseVars, mcpVars, callVars, mgrVars, subVars>>
    /\ UNCHANGED <<botVars, splitVars, newsVars>>

(***************************************************************************)
(* runBot: the webhook handler                                             *)
(***************************************************************************)
\* requests the handler serves in one run
MaxUpdates == 2

\* Telegram user ids
Users == {1, 2, 3}

\* A request to the webhook path.  decodes tells whether the body decodes
\* into an Update; message is "nil" or "set"; chars is msg.Text; from is <<>>
\* for msg.From == nil and <<id>> otherwise.
Request(method, decodes, message, chars, from) ==
    [method |-> method, decodes |-> decodes, message |-> message, text |-> chars,
     from |-> from]

Requests ==
    {Request("GET", TRUE, "nil", <<>>, <<>>), Request("POST", FALSE, "nil", <<>>, <<>>),
     Request("POST", TRUE, "nil", <<>>, <<>>)}
    \cup {Request("POST", TRUE, "set", c, f) :
             c \in {<<>>, <<"h", "i">>}, f \in {<<>>} \cup {<<u>> : u \in Users}}

\* what the handler did with a request: the status it answered with and
\* whether it started handleBotMessage
Handled(r, status, started) == [request |-> r, status |-> status, started |-> started]

NotServed == Handled(Request("none", FALSE, "nil", <<>>, <<>>), 0, FALSE)

\* the function registered with mux.HandleFunc(hookPath, ...)
webhook(allowed, r) ==
    IF r.method # "POST" THEN Handled(r, 405, FALSE)
    ELSE IF ~r.decodes THEN Handled(r, 400, FALSE)
    ELSE IF r.message = "nil" \/ r.text = <<>> THEN Handled(r, StatusOK, FALSE)
    ELSE IF allowed # {} /\ r.from # <<>> /\ r.from[1] \notin allowed
    THEN Handled(r, StatusOK, FALSE)
    ELSE Handled(r, StatusOK, TRUE)

BotIdle == whAllowed = {} /\ whLast = NotServed /\ whServed = 0

\* runBot has built the set of allowed users from botCfg.AllowedUsers
BotInit == whAllowed \in SUBSET Users /\ whLast = NotServed /\ whServed = 0

\* the server calls the handler with a request
ServeHook(r) ==
    /\ whServed < MaxUpdates
    /\ whLast' = webhook(whAllowed, r)
    /\ whServed' = whServed + 1
    /\ UNCHANGED whAllowed
    /\ UNCHANGED <<filterVars, streamVars, loopVars, sseVars, mcpVars, callVars, mgrVars, subVars>>
    /\ UNCHANGED <<bodyVars, splitVars, newsVars>>

(***************************************************************************)
(* splitTelegramMessage                                                    *)
(***************************************************************************)
\* the limit of one message, 4096 bytes in the program, scaled
telegramMaxLen == 4

\* bytes of a text to split
MaxText == 9

RECURSIVE MessagesOf(_)
MessagesOf(n) ==
    IF n = 0 THEN {<<>>}
    ELSE LET prev == MessagesOf(n - 1)
         IN prev \cup {Append(t, c) : t \in prev, c \in {"a", "\n"}}

\* the search for the last newline that takes the chunk up to the newline,
\* looking at the first byte too
cutBeforeNewline(s, limit) ==
    LET is == {i \in 0..(limit - 1) : s[i + 1] = "\n"}
    IN IF is = {} THEN limit ELSE CHOOSE i \in is : \A j \in is : j <= i

\* cut := telegramMaxLen; for i := cut - 1; i > 0; i-- { if text[i] == '\n'
\* { cut = i + 1; break } }, for a text longer than limit
cutAt(s, limit) ==
    LET is == {i \in 1..(limit - 1) : s[i + 1] = "\n"}
    IN IF is = {} THEN limit ELSE (CHOOSE i \in is : \A j \in is : j <= i) + 1

RECURSIVE Concat(_)
Concat(chunks) == IF chunks = <<>> THEN <<>> ELSE Head(chunks) \o Concat(Tail(chunks))

SplitIdle == spText = <<>> /\ spRest = <<>> /\ spChunks = <<>> /\ spPc = "off"

\* splitTelegramMessage is called with a text
SplitInit ==
    /\ spText \in MessagesOf(MaxText)
    /\ spRest = spText /\ spChunks = <<>> /\ spPc = "call"

\* the text fits one message
SplitShort ==
    /\ spPc = "call" /\ Len(spRest) <= telegramMaxLen
    /\ spChunks' = <<spRest>>
    /\ spPc' = "returned"
    /\ UNCHANGED <<spText, spRest>>
    /\ UNCHANGED <<filterVars, streamVars, loopVars, sseVars, mcpVars, callVars, mgrVars, subVars>>
    /\ UNCHANGED <<bodyVars, botVars, newsVars>>

\* one pass of the loop over a text longer than the limit
SplitCut ==
    /\ spPc \in {"call", "loop"} /\ Len(spRest) > telegramMaxLen
    /\ LET cut == cutAt(spRest, telegramMaxLen)
       IN /\ spChunks' = Append(spChunks, Slice(spRest, 0, cut))
          /\ spRest' = Slice(spRest, cut, Len(spRest))
    /\ spPc' = "loop"
    /\ UNCHANGED spText
    /\ UNCHANGED <<filterVars, streamVars, loopVars, sseVars, mcpVars, callVars, mgrVars, subVars>>
    /\ UNCHANGED <<bodyVars, botVars, newsVars>>

\* the last pass: what is left fits one message, or nothing is left
SplitLast ==
    /\ spPc = "loop" /\ Len(spRest) <= telegramMaxLen
    /\ spChunks' = IF Len(spRest) > 0 THEN Append(spChunks, spRest) ELSE spChunks
    /\ spPc' = "returned"
    /\ UNCHANGED <<spText, spRest>>
    /\ UNCHANGED <<filterVars, streamVars, loopVars, sseVars, mcpVars, callVars, mgrVars, subVars>>
    /\ UNCHANGED <<bodyVars, botVars, newsVars>>

(***************************************************************************)
(* fetchAllNews                                                            *)
(***************************************************************************)
\* URLs of one call
MaxUrls == 3

Urls == {"u1", "u2"}

RECURSIVE UrlLists(_)
UrlLists(n) ==
    IF n = 0 THEN {<<>>}
    ELSE LET prev == UrlLists(n - 1) IN prev \cup {Append(l, u) : l \in prev, u \in Urls}

\* the readable name of a URL: a function of the URL alone
sourceName(rawURL) == <<"name of", rawURL>>

\* What tools.FetchURL(rawURL) returns: failed tells err != nil, of the URL
\* the content or the error belongs to, long whether the content has more
\* than 30000 bytes.
Fetched(failed, of, long) == [failed |-> failed, of |-> of, long |-> long]

NotFetched == Fetched(FALSE, "", FALSE)

FetchResults(rawURL) ==
    {Fetched(TRUE, rawURL, FALSE), Fetched(FALSE, rawURL, FALSE), Fetched(FALSE, rawURL, TRUE)}

\* the field Content or Err: set tells that it was assigned, cut that the
\* content was cut to 30000 bytes and marked as truncated
Field(set, of, cut) == [set |-> set, of |-> of, cut |-> cut]

Unset == Field(FALSE, "", FALSE)

\* newsSource{URL, Name, Content, Err}
newsSource(u, name, content, err) ==
    [URL |-> u, Name |-> name, Content |-> content, Err |-> err]

ZeroSource == newsSource("", <<>>, Unset, Unset)

\* the slot a goroutine writes when it uses the loop variable instead of its
\* parameter
slotOfLoopVar(idx, i) == i

\* the slot the goroutine started with go func(idx, rawURL){...}(i, u)
\* writes: its parameter idx
slotOf(idx, i) == idx

\* the goroutine's assignments after FetchURL has returned
store(sources, slot, got) ==
    IF got.failed
    THEN [sources EXCEPT ![slot].Err = Field(TRUE, got.of, FALSE)]
    ELSE [sources EXCEPT ![slot].Content = Field(TRUE, got.of, got.long)]

NewsIdle ==
    /\ nwUrls = <<>> /\ nwSources = <<>> /\ nwNext = 0 /\ nwWg = 0
    /\ nwG = <<>> /\ nwGot = <<>> /\ nwWrote = {} /\ nwPc = "off"

\* fetchAllNews is called: sources := make([]newsSource, len(urls))
NewsInit ==
    /\ nwUrls \in UrlLists(MaxUrls)
    /\ nwSources = [k \in 1..Len(nwUrls) |-> ZeroSource]
    /\ nwNext = 0 /\ nwWg = 0
    /\ nwG = [k \in 1..Len(nwUrls) |-> "none"]
    /\ nwGot = [k \in 1..Len(nwUrls) |-> NotFetched]
    /\ nwWrote = {} /\ nwPc = "loop"

\* one pass of `for i, u := range urls`: URL and Name are set, the
\* goroutine is started
Spawn ==
    /\ nwPc = "loop" /\ nwNext < Len(nwUrls)
    /\ LET k == nwNext + 1
       IN /\ nwSources' = [nwSources EXCEPT ![k].URL = nwUrls[k],
                                             ![k].Name = sourceName(nwUrls[k])]
          /\ nwG' = [nwG EXCEPT ![k] = "started"]
    /\ nwWg' = nwWg + 1
    /\ nwNext' = nwNext + 1
    /\ UNCHANGED <<nwUrls, nwGot, nwWrote, nwPc>>
    /\ UNCHANGED <<filterVars, streamVars, loopVars, sseVars, mcpVars, callVars, mgrVars, subVars>>
    /\ UNCHANGED <<bodyVars, botVars, splitVars>>

\* goroutine k reports its progress and FetchURL(rawURL) returns
Fetch(k, got) ==
    /\ k \in 1..Len(nwUrls) /\ nwG[k] = "started"
    /\ got \in FetchResults(nwUrls[k])
    /\ nwGot' = [nwGot EXCEPT ![k] = got]
    /\ nwG' = [nwG EXCEPT ![k] = "fetched"]
    /\ UNCHANGED <<nwUrls, nwSources, nwNext, nwWg, nwWrote, nwPc>>
    /\ UNCHANGED <<filterVars, streamVars, loopVars, sseVars, mcpVars, callVars, mgrVars, subVars>>
    /\ UNCHANGED <<bodyVars, botVars, splitVars>>

\* goroutine k assigns Err or Content and ends: wg.Done()
Store(k) ==
    /\ k \in 1..Len(nwUrls) /\ nwG[k] = "fetched"
    /\ LET cur == IF nwNext < Len(nwUrls) THEN nwNext + 1 ELSE Len(nwUrls)
           slot == slotOf(k, cur)
       IN /\ nwSources' = store(nwSources, slot, nwGot[k])
          /\ nwWrote' = nwWrote \cup {<<k, slot>>}
    /\ nwG' = [nwG EXCEPT ![k] = "done"]
    /\ nwWg' = nwWg - 1
    /\ UNCHANGED <<nwUrls, nwNext, nwGot, nwPc>>
    /\ UNCHANGED <<filterVars, streamVars, loopVars, sseVars, mcpVars, callVars, mgrVars, subVars>>
    /\ UNCHANGED <<bodyVars, botVars, splitVars>>

\* the loop has ended, wg.Wait() returns, fetchAllNews returns sources
WaitReturn ==
    /\ nwPc = "loop" /\ nwNext = Len(nwUrls)
    /\ nwWg = 0
    /\ nwPc' = "returned"
    /\ UNCHANGED <<nwUrls, nwSources, nwNext, nwWg, nwG, nwGot, nwWrote>>
    /\ UNCHANGED <<filterVars, streamVars, loopVars, sseVars, mcpVars, callVars, mgrVars, subVars>>
    /\ UNCHANGED <<bodyVars, botVars, splitVars>>

MoreIdle == BodyIdle /\ BotIdle /\ SplitIdle /\ NewsIdle

ToolIdle == CallIdle /\ MgrIdle /\ SubIdle /\ MoreIdle

(***************************************************************************)
(* Specifications                                                          *)
(***************************************************************************)
\* the three tool-calling loops
Init == FilterIdle /\ StreamIdle /\ LoopInit /\ SSEIdle /\ MCPIdle /\ ToolIdle

Next ==
    \/ \E resp \in Responses : ModelTurn(resp)
    \/ ExecTool
    \/ \E resp \in Responses : ForcedFinal(resp)

Spec == Init /\ [][Next]_vars

\* The loops, each step of which is taken once it can be: the calls are
\* synchronous, doStream and the tools return.
FairSpec == Init /\ [][Next]_vars /\ WF_vars(Next)

\* one stream pushed through a thinkFilter in chunks
FilterNext ==
    \/ \E k \in 1..(MaxPieces * Len(TagClose)) : Push(k)
    \/ Flush

InitFilter == FilterInit /\ StreamIdle /\ LoopIdle /\ SSEIdle /\ MCPIdle /\ ToolIdle

SpecFilter == InitFilter /\ [][FilterNext]_vars

\* the tool-call fragments of one streamed response
StreamNext ==
    \/ \E i \in Slots : Deliver(i)
    \/ EndStream

InitStream == FilterIdle /\ StreamInit /\ LoopIdle /\ SSEIdle /\ MCPIdle /\ ToolIdle

SpecStream == InitStream /\ [][StreamNext]_vars

\* capMaxTokens applied to a conversation
InitCap == FilterIdle /\ StreamIdle /\ CapInit /\ SSEIdle /\ MCPIdle /\ ToolIdle

SpecCap == InitCap /\ [][ApplyCap]_vars

\* parseSSE on one response body
SSENext ==
    \/ ScanLine
    \/ ScanEnd

InitSSE == FilterIdle /\ StreamIdle /\ LoopIdle /\ SSEInit /\ MCPIdle /\ ToolIdle

SpecSSE == InitSSE /\ [][SSENext]_vars

\* goroutines handling bot messages, on one MCP server
MCPNext ==
    \/ \E g \in Procs : CallInitialize(g)
    \/ \E g \in Procs : InitEnter(g)
    \/ \E g \in Procs : CallTool(g)
    \/ \E g \in Procs : Send(g)
    \/ \E g \in Procs : \E resp \in InitializeResponses : RecvInitialize(g, resp)
    \/ \E g \in Procs : \E resp \in NotifyResponses : RecvNotify(g, resp)
    \/ \E g \in Procs : \E resp \in ToolsListResponses : RecvToolsList(g, resp)
    \/ \E g \in Procs : \E resp \in ToolsCallResponses : RecvToolsCall(g, resp)

InitMCP == FilterIdle /\ StreamIdle /\ LoopIdle /\ SSEIdle /\ MCPInit /\ ToolIdle

SpecMCP == InitMCP /\ [][MCPNext]_vars

\* one remote tool call, from the request handed to Do to the tool message
CallNext ==
    \/ DoReturns
    \/ AppendToolMessage

InitCall ==
    FilterIdle /\ StreamIdle /\ LoopIdle /\ SSEIdle /\ MCPIdle /\ CallInit /\ MgrIdle /\ SubIdle /\ MoreIdle

SpecCall == InitCall /\ [][CallNext]_vars

\* Do is left as soon as the exchange has ended, and the loop runs on
FairCall == InitCall /\ [][CallNext]_vars /\ WF_vars(CallNext)

\* one run of the program with its manager: start-up, then queries
MgrNext ==
    \/ \E answers \in [Servers -> HandshakeAnswers] : Startup(answers)
    \/ \E names \in NameLists : \E answers \in [Servers -> HandshakeAnswers] :
          BeginQuery(names, answers)
    \/ OfferTools
    \/ \E name \in CalledNames : ExecNamed(name)
    \/ EndQuery

InitMgr ==
    FilterIdle /\ StreamIdle /\ LoopIdle /\ SSEIdle /\ MCPIdle /\ CallIdle /\ MgrInit /\ SubIdle /\ MoreIdle

SpecMgr == InitMgr /\ [][MgrNext]_vars

\* the bot's handlers, each with a loop whose tool calls the sub-agent
SubNext ==
    \/ \E g \in Handlers : \E sp \in SubPrompts : \E um \in SubPayloads : Enter(g, sp, um)
    \/ \E g \in Handlers : LoadDepth(g)
    \/ \E g \in Handlers : \E answer \in SubAnswers : Leave(g, answer)
    \/ \E g \in Handlers : AppendResult(g)

InitSub ==
    FilterIdle /\ StreamIdle /\ LoopIdle /\ SSEIdle /\ MCPIdle /\ CallIdle /\ MgrIdle /\ SubInit /\ MoreIdle

SpecSub == InitSub /\ [][SubNext]_vars

\* doStream reading one response body
BodyNext == SkipLine \/ DecodeChunk \/ ReadDone \/ TokenTooLong \/ EndOfBody

InitBody ==
    FilterIdle /\ StreamIdle /\ LoopIdle /\ SSEIdle /\ MCPIdle /\ CallIdle /\ MgrIdle
    /\ SubIdle /\ BodyInit /\ BotIdle /\ SplitIdle /\ NewsIdle

SpecBody == InitBody /\ [][BodyNext]_vars

\* the bot's webhook server
BotNext == \E r \in Requests : ServeHook(r)

InitBot ==
    FilterIdle /\ StreamIdle /\ LoopIdle /\ SSEIdle /\ MCPIdle /\ CallIdle /\ MgrIdle
    /\ SubIdle /\ BodyIdle /\ BotInit /\ SplitIdle /\ NewsIdle

SpecBot == InitBot /\ [][BotNext]_vars

\* splitTelegramMessage over one text
SplitNext == SplitShort \/ SplitCut \/ SplitLast

InitSplit ==
    FilterIdle /\ StreamIdle /\ LoopIdle /\ SSEIdle /\ MCPIdle /\ CallIdle /\ MgrIdle
    /\ SubIdle /\ BodyIdle /\ BotIdle /\ SplitInit /\ NewsIdle

SpecSplit == InitSplit /\ [][SplitNext]_vars

\* fetchAllNews and its goroutines
NewsNext ==
    \/ Spawn
    \/ \E k \in 1..MaxUrls, failed \in BOOLEAN, long \in BOOLEAN, u \in Urls :
          Fetch(k, Fetched(failed, u, long))
    \/ \E k \in 1..MaxUrls : Store(k)
    \/ WaitReturn

InitNews ==
    FilterIdle /\ StreamIdle /\ LoopIdle /\ SSEIdle /\ MCPIdle /\ CallIdle /\ MgrIdle
    /\ SubIdle /\ BodyIdle /\ BotIdle /\ SplitIdle /\ NewsInit

SpecNews == InitNews /\ [][NewsNext]_vars

(***************************************************************************)
(* Properties of the tool-calling loops                                    *)
(***************************************************************************)
\* Every assistant message with k tool calls is followed at once by exactly k
\* tool messages carrying the ids of its calls in order, and every tool
\* message belongs to the assistant message before its run of tool messages.
WellFormed(ms) ==
    /\ \A i \in 1..Len(ms) :
          (ms[i].Role = RoleAssistant /\ ms[i].ToolCalls # <<>>) =>
             LET k == Len(ms[i].ToolCalls)
             IN /\ i + k <= Len(ms)
                /\ \A j \in 1..k : /\ ms[i + j].Role = RoleTool
                                   /\ ms[i + j].ToolCallID = ms[i].ToolCalls[j].ID
                /\ (i + k < Len(ms) => ms[i + k + 1].Role # RoleTool)
    /\ \A p \in 1..Len(ms) :
          ms[p].Role = RoleTool =>
             \E i \in 1..(p - 1) : /\ ms[i].Role = RoleAssistant
                                   /\ p - i <= Len(ms[i].ToolCalls)
                                   /\ \A q \in (i + 1)..p : ms[q].Role = RoleTool

ToolMessages(ms) == Len(SelectSeq(ms, LAMBDA m : m.Role = RoleTool))

\* C1: in each of the three loops the message list of every model request is
\* well-formed: an assistant message with k tool calls is followed at once by
\* exactly k tool messages, the i-th with the id of the i-th call, and the
\* tool messages of a round stand together.
C1_RequestsWellFormed ==
    ~overflow =>
       /\ (lastReq.Tools # "none" => WellFormed(lastReq.Messages))
       /\ (pc \in {"awaiting", "forced"} => WellFormed(messages))

\* a second-round request whose conversation holds a turn with two tool calls
C1_Witness ==
    /\ ~overflow
    /\ Len(lastReq.Messages) >= 7
    /\ \E i \in 1..Len(lastReq.Messages) : Len(lastReq.Messages[i].ToolCalls) = 2
    /\ \E i \in 1..Len(lastReq.Messages) : Len(lastReq.Messages[i].ToolCalls) = 1

\* C2: doSubAgentWithTools against a model that answers every request that
\* offers tools with a tool call issues exactly maxRounds requests with the
\* tool set, then exactly one without, returns the (think-stripped) content of
\* that last answer whatever tool calls it carries, and executes no tool
\* after it.
C2_RoundLimit ==
    (loop = "sub" /\ modelAlwaysCalls) =>
       /\ nToolReqs <= maxRounds
       /\ nPlainReqs <= 1
       /\ (pc \in {"done", "failed"} => nPlainReqs = 1)
       /\ (nPlainReqs = 1 =>
              /\ nToolReqs = maxRounds
              /\ pc \in {"done", "failed"}
              /\ lastReq.Tools = "nil"
              /\ nExec = ToolMessages(lastReq.Messages))
       /\ (pc = "done" => ret = [kind |-> "ok", text |-> stripThinkTags(lastResp.Content)])

\* the forced final answer of a sub-agent with the most rounds carries tool
\* calls and a thinking block, and is returned
C2_Witness ==
    /\ loop = "sub" /\ modelAlwaysCalls /\ pc = "done"
    /\ maxRounds = MaxRounds /\ nToolReqs = MaxRounds
    /\ lastResp.ToolCalls # <<>>
    /\ ret.text # lastResp.Content

\* C3: every loop, runQuery and the synthesis loop of runMailSummary
\* included, eventually returns, whatever the model answers.
C3_EveryLoopTerminates == <>(pc \in {"done", "failed"})

\* the step ExecTool takes for a call whose execution failed
FailedExec == pc = "tools" /\ ~overflow /\ lastExec'.failed /\ ci' = ci + 1

\* the loop goes on after a tool message: to the next call of the round, or
\* back to the head of the loop and so to the next model request
GoesOn ==
    /\ pc' = (IF ci' < Len(calls) THEN "tools" ELSE loopHead(loop, round', maxRounds))
    /\ ret' = ret
    /\ calls' = calls

\* C4 as stated: a failing tool execution appends the tool message "error: "
\* followed by the error message, with the call's id, and the loop goes on.
C4_ErrorMessageVerbatim ==
    [][FailedExec =>
          /\ messages' = Append(messages,
                Message(RoleTool, ErrPrefix \o lastExec'.text, <<>>, calls[ci + 1].ID))
          /\ GoesOn]_vars

\* C4 as amended: the content is "error: " followed by the error message,
\* which doSubAgentWithTools cuts to maxToolResultChars characters and ends
\* with the truncation marker when it is longer than that cap; runQuery and
\* runMailSummary never cut it.
C4_ErrorMessageCapped ==
    [][FailedExec =>
          LET full == ErrPrefix \o lastExec'.text
              cut == loop = "sub" /\ maxToolResultChars > 0 /\ Len(full) > maxToolResultChars
              content == IF cut THEN SubSeq(full, 1, maxToolResultChars) \o TruncMarker
                         ELSE full
          IN /\ messages' = Append(messages,
                   Message(RoleTool, content, <<>>, calls[ci + 1].ID))
             /\ GoesOn]_vars

\* a sub-agent with a cap has turned a failed first call of a round of two
\* into a cut error message and stands before the second call
C4_Witness ==
    /\ loop = "sub" /\ maxToolResultChars > 0 /\ ~overflow
    /\ pc = "tools" /\ ci = 1 /\ Len(calls) = 2
    /\ lastExec.failed
    /\ messages[Len(messages)].Content = SubSeq(ErrPrefix, 1, maxToolResultChars) \o TruncMarker

\* C5: a failed model request is fatal: the loop returns that error at once,
\* without another message, tool execution or request; nothing follows a
\* return.
C5_ModelErrorFatal ==
    [][/\ pc \notin {"failed", "done"}
       /\ (pc \in {"awaiting", "forced"} /\ lastResp'.failed) =>
             /\ pc' = "failed"
             /\ ret'.kind = "error"
             /\ HasSuffix(ret'.text, lastResp'.Content)
             /\ messages' = messages
             /\ nExec' = nExec]_vars

\* runQuery failed on the request that followed a round of tool calls
C5_Witness ==
    /\ loop = "query" /\ pc = "failed" /\ nExec > 0
    /\ ret = [kind |-> "error", text |-> lastResp.Content]

(***************************************************************************)
(* Properties of thinkFilter                                               *)
(***************************************************************************)
\* The input the callbacks up to index upto account for: the text written,
\* with <think> put back where onThinkStart was invoked and </think> where
\* onThinkEnd was. Callbacks after upto are those of flush, which consumes
\* no marker.
RECURSIVE ReconFrom(_, _, _)
ReconFrom(log, i, upto) ==
    IF i > Len(log) THEN <<>>
    ELSE (IF log[i].kind \in {"content", "think"} THEN log[i].text
          ELSE IF i > upto THEN <<>>
          ELSE IF log[i].kind = "start" THEN TagOpen
          ELSE TagClose) \o ReconFrom(log, i + 1, upto)

Recon(log, upto) == ReconFrom(log, 1, upto)

\* the whole text in one process call, then flush
OneShot(t) == flush(process(NewFilter, t))

\* C6: however the text is cut into chunks, the chunks pushed one by one and
\* then flush give writeContent the same text as one process call with the
\* whole text followed by flush.
C6_ChunkingInvariant ==
    flushed => Visible(emitted) = Visible(Record(<<>>, OneShot(text).out))

\* a stream with a thinking block whose marker was cut by a chunk boundary,
\* and with visible text
C6_Witness ==
    /\ flushed /\ held
    /\ \E i \in 1..Len(emitted) : emitted[i].kind = "start"
    /\ Visible(emitted) # <<>>
    /\ Visible(emitted) # text

\* C7: the texts written, in the order written and with the markers that
\* process consumed put back at its onThinkStart and onThinkEnd calls, are
\* the input: before flush the input pushed so far less what is pending,
\* after flush the whole input.
C7_NoLossNoReorder ==
    IF flushed THEN Recon(emitted, flushAt) = text
    ELSE Recon(emitted, Len(emitted)) \o pending = SubSeq(text, 1, pos)

\* a flushed stream with a complete thinking block, text held back across a
\* chunk boundary, and text written by flush
C7_Witness ==
    /\ flushed /\ held
    /\ \E i \in 1..flushAt : emitted[i].kind = "end"
    /\ \E i \in 1..Len(emitted) : emitted[i].kind = "content"
    /\ emitted # Record(<<>>, process(NewFilter, text).out)

\* C8: after flush the filter is not in thinking mode and holds nothing back,
\* and a filter that was in thinking mode has had onThinkEnd invoked by flush.
C8_FlushClosesThinking ==
    flushed =>
       /\ active = FALSE
       /\ pending = <<>>
       /\ (activeAtFlush => /\ Len(emitted) > flushAt
                            /\ emitted[Len(emitted)].kind = "end")

(***************************************************************************)
(* Properties of the tool-call accumulation of doStream                    *)
(***************************************************************************)
\* tcMap after each served call has arrived in one fragment, lowest slot first
RECURSIVE atomicFrom(_, _)
atomicFrom(m, i) ==
    IF i > MaxSlot + 1 THEN m
    ELSE IF i \in DOMAIN served
    THEN atomicFrom(accumulate(m, Fragment(i, served[i].ID, served[i].Type,
                                           served[i].Function.Name,
                                           served[i].Function.Arguments)), i + 1)
    ELSE atomicFrom(m, i + 1)

\* the slot a finalized call was served in (ids differ per slot)
SlotOf(tc) == CHOOSE i \in DOMAIN served : served[i].ID = tc.ID

\* C9: whatever the order the fragments of the slots arrive in and however
\* the arguments are cut, the finalized list is in ascending slot index, each
\* call of it carries its name and its whole arguments, and it is the list
\* finalized when each call arrives in one fragment.
C9_FragmentOrderIrrelevant ==
    streamEnded =>
       /\ toolCalls = finalize(atomicFrom(EmptyMap, 0))
       /\ \A j \in 1..Len(toolCalls) :
             /\ \E i \in DOMAIN served : toolCalls[j] = served[i]
             /\ \A k \in (j + 1)..Len(toolCalls) : SlotOf(toolCalls[j]) < SlotOf(toolCalls[k])

\* three calls, a fragment of a lower slot arriving after one of a higher
\* slot, the arguments of a call cut into three fragments
C9_Witness ==
    /\ streamEnded /\ reordered
    /\ Len(toolCalls) = 3
    /\ \E i \in DOMAIN wire : Len(wire[i]) >= 3

\* C12: every request a tool loop issues carries
\* max_tokens = capMaxTokens(contextLimit, maxTokens, messages) computed from
\* the conversation the request sends: in doSubAgentWithTools (the forced
\* final request included), in runQuery and in the mail-summary loop.
C12_CapBeforeEveryRequest ==
    lastReq # NoRequest =>
       lastReq.MaxTokens = capMaxTokens(contextLimit, maxTokens, lastReq.Messages)

\* the tool message appended for the last executed call is the last message
LastToolMessage ==
    /\ lastExec # NoExec /\ ~overflow /\ messages # <<>>
    /\ messages[Len(messages)].Role = RoleTool
    /\ messages[Len(messages)].ToolCallID = lastExec.id

\* the cap in force on the tool results of the running loop: the parameter of
\* doSubAgentWithTools, and for the other loops a cap its callers configure
CapInForce(c) ==
    IF loop = "sub" THEN c = maxToolResultChars ELSE c \in ResultCaps \ {0}

\* C13: every tool-role message a loop appends is size-capped: a result longer
\* than the cap is cut to the cap and followed by the truncation marker, a
\* shorter one is appended whole, in runQuery and the mail-summary loop as in
\* doSubAgentWithTools.
C13_ToolResultsCapped ==
    LastToolMessage =>
       \E c \in ResultCaps : /\ CapInForce(c)
                              /\ messages[Len(messages)].Content
                                    = capResult(c, toolResultText(lastExec))

(***************************************************************************)
(* Properties of capMaxTokens                                              *)
(***************************************************************************)
Min(a, b) == IF a < b THEN a ELSE b

Max(a, b) == IF a > b THEN a ELSE b

\* conversations of estimated size 900 and 200
Conv900 == <<Message(RoleSystem, Rep(32), <<>>, <<>>), Message(RoleUser, Rep(2500), <<>>, <<>>)>>

Conv200 == <<Message(RoleSystem, Rep(32), <<>>, <<>>), Message(RoleUser, Rep(400), <<>>, <<>>)>>

\* C10 as stated: with a known window the cap is
\* min(maxTokens, max(256, contextLimit - estimate)).
C10_CapIsMinOfMax ==
    (pc = "capped" /\ contextLimit > 0) =>
       effectiveMax = Min(maxTokens, Max(256, contextLimit - estimateTokens(messages)))

\* C10 as amended: with a known window the cap is 256 when
\* contextLimit - estimate is below 256, also when maxTokens is smaller than
\* 256, and min(maxTokens, contextLimit - estimate) otherwise; that is the
\* stated formula whenever maxTokens >= 256. Window 1000 with estimate 900
\* gives 256, and estimate 200 with maxTokens 500 gives 500.
C10_CapFloorFirst ==
    (pc = "capped" /\ contextLimit > 0) =>
       LET available == contextLimit - estimateTokens(messages)
       IN /\ (available < 256 => effectiveMax = 256)
          /\ (available >= 256 => effectiveMax = Min(maxTokens, available))
          /\ (maxTokens >= 256 =>
                 effectiveMax = Min(maxTokens, Max(256, available)))
          /\ (messages = Conv900 => estimateTokens(messages) = 900)
          /\ (messages = Conv200 => estimateTokens(messages) = 200)
          /\ (messages = Conv900 /\ contextLimit = 1000 => effectiveMax = 256)
          /\ (messages = Conv200 /\ contextLimit = 1000 /\ maxTokens = 500 =>
                 effectiveMax = 500)

\* window 1000, estimate 900 and a requested size below the floor
C10_Witness ==
    /\ pc = "capped" /\ contextLimit = 1000 /\ messages = Conv900
    /\ maxTokens = 100 /\ effectiveMax = 256

\* C11: with an unknown context window (contextLimit 0 or unset, i.e. not
\* positive) capMaxTokens returns the requested maxTokens unchanged, whatever
\* the size of the conversation.
C11_UnknownWindowNoCap ==
    (pc = "capped" /\ contextLimit <= 0) => effectiveMax = maxTokens

\* window unknown, a conversation of estimated size 900, a request below the floor
C11_Witness ==
    /\ pc = "capped" /\ contextLimit = 0 /\ messages = Conv900
    /\ maxTokens = 100 /\ effectiveMax = 100

(***************************************************************************)
(* Properties of parseSSE                                                  *)
(***************************************************************************)
\* line i of the body is a "data: " frame that parses as a JSON-RPC response
\* with a non-null id
IsResponseFrame(line) ==
    /\ line.head = DataPrefix
    /\ ~Unmarshal(line.doc).err
    /\ Unmarshal(line.doc).resp.ID # NilID

ResponseFrames(upto) == {i \in 1..upto : IsResponseFrame(sseBody[i])}

First(S) == CHOOSE i \in S : \A j \in S : i <= j

\* C19 as stated: parseSSE returns the first "data: " frame that parses as a
\* JSON-RPC response with a non-null id, whatever lines come before it, and
\* fails when the body holds no such frame.
C19_FirstResponseFrame ==
    sseResult.done =>
       LET F == ResponseFrames(Len(sseBody))
       IN IF F = {} THEN sseResult.err # Nil
          ELSE /\ sseResult.err = Nil
               /\ sseResult.resp = Unmarshal(sseBody[First(F)].doc).resp

\* the lines before the first one that is longer than the scanner's buffer
WithinBuffer ==
    LET long == {i \in 1..Len(sseBody) : sseBody[i].tooLong}
    IN IF long = {} THEN Len(sseBody) ELSE First(long) - 1

\* C19 as amended: parseSSE returns the first line that starts with "data: "
\* and parses as a JSON-RPC response with a non-null id, skipping earlier
\* frames without an id, lines without that prefix and unparsable frames,
\* provided no line up to and including it is longer than the scanner's buffer
\* of 256 KiB; it fails with the scanner's error when such a line comes first
\* and with "no JSON-RPC response found" when the body holds no such frame.
C19_FirstResponseFrameWithinBuffer ==
    sseResult.done =>
       LET F == ResponseFrames(WithinBuffer)
       IN IF F # {}
          THEN /\ sseResult.err = Nil
               /\ sseResult.resp = Unmarshal(sseBody[First(F)].doc).resp
               /\ sseScanned = First(F)
          ELSE /\ sseResult.resp = NoResult.resp
               /\ sseResult.err = IF WithinBuffer < Len(sseBody) THEN ErrSSERead
                                  ELSE ErrNoResponse

\* a notification, an unparsable frame, then the response with id 1
C19_Witness ==
    /\ sseBody = <<SSELine(DataPrefix, NotificationDoc, FALSE),
                   SSELine(DataPrefix, NoJSON, FALSE),
                   SSELine(DataPrefix, ResponseDoc(1), FALSE)>>
    /\ sseResult.done /\ sseResult.err = Nil
    /\ sseResult.resp.ID = IntPtr(1)

(***************************************************************************)
(* Properties of MCPServer                                                 *)
(***************************************************************************)
Handshake == <<"initialize", "notifications/initialized", "tools/list">>

\* C14: initialize sends initialize, notifications/initialized and tools/list
\* in this order; the notification only after initialize was answered without
\* an error member, tools/list only after the exchange of the notification has
\* ended, and inited is set only after tools/list was answered and its
\* result decoded.
C14_HandshakeOrder ==
    /\ Len(hs) <= 3
    /\ \A i \in 1..Len(hs) : hs[i].method = Handshake[i]
    /\ (Len(hs) >= 2 => hs[1].outcome = "answered")
    /\ (Len(hs) >= 3 => hs[2].outcome \in {"answered", "failed"})
    /\ (inited => /\ Len(hs) = 3
                  /\ hs[3].outcome = "answered"
                  /\ hs[3].result \notin {"absent", "badTools"})

\* a handshake gone through, the tools cached
C14_Witness ==
    /\ inited /\ mcpTools = TwoTools /\ Len(hs) = 3 /\ mu = Unlocked
    /\ hs[2].outcome = "answered"

\* C15: initialize calls on one server collapse to one handshake: at most one
\* handshake succeeds, no request of a handshake is sent once the server is
\* initialized, a goroutine is inside the handshake only while it holds the
\* lock, and an initialize call that finds the server initialized returns nil
\* without sending anything.
C15_InitializeOnce ==
    /\ [](/\ handshakes <= 1
          /\ sentInited = 0
          /\ \A g \in Procs :
                gpc[g] \in {"init1", "wait1", "notify", "waitN", "list", "wait3"}
                   => (mu = g /\ ~inited))
    /\ [][\A g \in Procs :
            (inited /\ gpc[g] = "initLock" /\ gpc'[g] # "initLock")
               => /\ gpc'[g] = "idle" /\ gret'[g] = ReturnedNil
                  /\ inflight' = inflight /\ hs' = hs /\ sentInited' = sentInited]_vars

\* both goroutines have returned nil from initialize, after one handshake
C15_Witness ==
    /\ handshakes = 1 /\ ops = 2
    /\ \A g \in Procs : gpc[g] = "idle" /\ gret[g] = ReturnedNil

\* C16: all traffic to the server is serialized by MCPServer.mu: no two HTTP
\* exchanges with the server are in flight at once, and a goroutine that
\* waits inside rpcCall or rpcNotify, which read and write sessionID, holds
\* the lock, in the handshake and in callTool.
C16_TrafficSerialized ==
    /\ Cardinality({g \in Procs : inflight[g] # NoExchange}) <= 1
    /\ \A g \in Procs : gpc[g] \in {"wait1", "waitN", "wait3", "waitC"} => mu = g

\* C17: once a session token is stored, every request sent, by rpcCall and
\* by rpcNotify, carries the stored token in Mcp-Session-Id, also when
\* cfg.Headers has a header of that name.
C17_SessionEchoed ==
    [][\A g \in Procs :
          (inflight'[g] # inflight[g] /\ inflight'[g] # NoExchange /\ sessionID # "")
             => /\ SessionHeader \in DOMAIN inflight'[g].headers
                /\ inflight'[g].headers[SessionHeader] = sessionID]_vars

\* under a configuration that sets a header of the same name: a tools/call
\* sent with the token "s1", and a notification sent with "s2" after "s2"
\* had replaced "s1"
C17_Witness ==
    /\ <<"mcp-session-id", "configured">> \in cfgHeaders
    /\ sessionID = "s2"
    /\ \E g \in Procs : /\ inflight[g].method = "notifications/initialized"
                        /\ inflight[g].headers[SessionHeader] = "s2"
    /\ \E g \in Procs : /\ inflight[g].method = "tools/call"
                        /\ inflight[g].headers[SessionHeader] = "s1"

\* C18: after every HTTP exchange whose response carries a non-empty
\* Mcp-Session-Id, be it the answer to a request or to a notification and
\* whatever its status, sessionID is that value.
C18_TokenReplaced == lastSid # "" => sessionID = lastSid

\* C20: a handshake whose tools/list is answered with an empty tools array, or
\* with a result that has no tools array, is no error: initialize returns nil
\* and the server is initialized with no tools cached.
C20_EmptyToolsAccepted ==
    /\ []((/\ Len(hs) = 3 /\ hs[3].outcome = "answered"
           /\ hs[3].result \in {"emptyTools", "noTools"})
             => (inited /\ mcpTools = <<>> /\ handshakes = 1))
    /\ [][(/\ Len(hs) = 3 /\ hs[3].outcome = "sent"
           /\ hs'[3].outcome = "answered"
           /\ hs'[3].result \in {"emptyTools", "noTools"})
             => /\ inited' /\ mcpTools' = <<>>
                /\ gret'[hs[3].g] = ReturnedNil /\ gpc'[hs[3].g] = "idle"
                /\ mu' = Unlocked]_vars

\* tools/list was answered with a result without a tools array
C20_Witness ==
    /\ Len(hs) = 3 /\ hs[3].outcome = "answered" /\ hs[3].result = "noTools"
    /\ inited /\ mcpTools = <<>> /\ gret[hs[3].g] = ReturnedNil

(***************************************************************************)
(* Properties of callTool                                                  *)
(***************************************************************************)
\* the answer carries an error member, or a result that decodes with isError
ProtocolError ==
    LET r == rpcCall(ctResp)
        d == decodeCallResult(r.resp.Result, ctBody)
    IN /\ r.err = Nil
       /\ r.resp.Error # Nil \/ (~d.err /\ d.callResult.IsError)

\* "error: " and the error, as the loop writes it into the tool message
ErrorRendering ==
    IF ctKind = "sub" THEN capResult(ctCap, ErrPrefix \o ctRet.text)
    ELSE ErrPrefix \o ctRet.text

\* C21: a JSON-RPC error member in the answer to tools/call and an isError
\* flag in a decoded result both make callTool return an error, and the loop
\* that executed the call appends for it the tool message "error: " followed
\* by the error text (cut to maxToolResultChars in doSubAgentWithTools) and
\* goes on.
C21_ProtocolErrorsAreToolErrors ==
    [][ProtocolError =>
         /\ ctPc = "waiting" => ctRet'.failed /\ ctPc' = "returned"
         /\ ctPc = "returned" =>
               /\ ctPc' = "next"
               /\ ctMsg'.Role = RoleTool /\ ctMsg'.ToolCallID = RemoteCall.ID
               /\ ctMsg'.Content = ErrorRendering
               /\ (ctKind # "sub" \/ ctCap = 0)
                     => SubSeq(ctMsg'.Content, 1, Len(ErrPrefix)) = ErrPrefix]_vars

C21_Witness ==
    /\ ctPc = "next" /\ ProtocolError
    /\ ctBody.IsError /\ rpcCall(ctResp).resp.Error = Nil
    /\ ctMsg.Content = ErrPrefix \o ToolErrorPrefix \o <<"a", "\n", "b">>

\* the texts of the parts of type "text" from part i on, a newline between
\* one and the next
RECURSIVE JoinedFrom(_, _)
JoinedFrom(content, i) ==
    IF i > Len(content) THEN <<>>
    ELSE IF content[i].Type # "text" THEN JoinedFrom(content, i + 1)
    ELSE content[i].Text
         \o (IF \E j \in (i + 1)..Len(content) : content[j].Type = "text"
             THEN <<"\n">> ELSE <<>>)
         \o JoinedFrom(content, i + 1)

\* callTool has returned a text for an answer whose result carries content
Succeeded ==
    /\ ctPc \in {"returned", "next"} /\ ~ctRet.failed
    /\ rpcCall(ctResp).resp.Result = "content"

\* C22: the text callTool returns for a successful call is the texts of the
\* content parts of type "text", in the order of the result, with one
\* newline between two of them; parts of another type add nothing.
C22_TextPartsJoined == Succeeded => ctRet.text = JoinedFrom(ctBody.Content, 1)

C22_Witness ==
    /\ Succeeded
    /\ ctBody.Content = <<ContentPart("text", <<"a">>), ContentPart("image", <<"b">>),
                          ContentPart("text", <<"b">>)>>
    /\ ctRet.text = <<"a", "\n", "b">>
(***************************************************************************)
(* Properties of the manager                                               *)
(***************************************************************************)
\* position i of name begins its first "__"
FirstSep(name, i) ==
    /\ i \in 1..(Len(name) - 1) /\ name[i] = "_" /\ name[i + 1] = "_"
    /\ \A j \in 1..(i - 1) : ~(name[j] = "_" /\ name[j + 1] = "_")

HasSep(name) == \E i \in 1..(Len(name) - 1) : FirstSep(name, i)

\* the part of name before its first "__"
ServerPart(name) ==
    LET i == CHOOSE k \in 1..(Len(name) - 1) : FirstSep(name, k) IN SubSeq(name, 1, i - 1)

\* the part of name after its first "__"
ToolPart(name) ==
    LET i == CHOOSE k \in 1..(Len(name) - 1) : FirstSep(name, k)
    IN SubSeq(name, i + 2, Len(name))

StartsWith(s, p) == Len(s) >= Len(p) /\ SubSeq(s, 1, Len(p)) = p

\* C23 as stated: a name that is no built-in tool and has no "__", or whose
\* part before the first "__" is no configured server, is rejected with an
\* "unknown tool" error and no server is contacted.
C23_RejectedAsUnknownTool ==
    [][\A name \in CalledNames \ Builtins :
          (ExecNamed(name) /\ (~HasSep(name) \/ ServerPart(name) \notin Servers))
             => /\ mgrRoute'.route = "error"
                /\ StartsWith(mgrRoute'.text, UnknownTool)
                /\ mgrLast'.contacted = {}]_vars

\* C23, amended: with a manager, a name that is no built-in tool is split at
\* its first "__"; the call goes to the server named before it, with the
\* rest as tool name, when that server is configured, and is rejected as an
\* unknown MCP server when it is not; a name without "__", and every such
\* name without a manager, is rejected as an unknown tool. A rejection
\* contacts no server.
C23_DispatchOnFirstSeparator ==
    [][\A name \in CalledNames \ Builtins :
          ExecNamed(name) =>
             IF mgrHas /\ HasSep(name)
             THEN IF ServerPart(name) \in Servers
                  THEN /\ mgrRoute'.route = "remote"
                       /\ mgrRoute'.server = ServerPart(name)
                       /\ mgrRoute'.tool = ToolPart(name)
                       /\ mgrLast'.contacted = {ServerPart(name)}
                  ELSE /\ mgrRoute'.route = "error"
                       /\ mgrRoute'.text = UnknownServer \o Quote(ServerPart(name))
                       /\ mgrLast'.contacted = {}
             ELSE /\ mgrRoute'.route = "error"
                  /\ mgrRoute'.text = UnknownTool \o Quote(name)
                  /\ mgrLast'.contacted = {}]_vars

\* a name with two separators went to the server named before the first
C23_Witness ==
    /\ mgrRoute.route = "remote" /\ mgrRoute.server = ServerGH
    /\ mgrRoute.tool = <<"a">> \o Separator \o <<"b">>
\* C24: no tools/call request is on its way to the server while the server's
\* inited flag is false.
C24_CallOnlyWhenInited ==
    \A g \in Procs : inflight[g].method = "tools/call" => inited

\* C25: when a handshake failed in a call into the manager, the caller of
\* that call received an error.
C25_HandshakeFailureSurfaced == mgrLast.hsFailed # {} => mgrLast.failed

\* the server parts of the definitions offered
OfferedServers == {ServerPart(d) : d \in mgrDefs}

\* C26: every definition ActiveToolDefs returns is named server__tool for a
\* tool of a server that is initialized and either enabled in mcp.json or
\* named for the query; a disabled server that the query does not name
\* offers nothing, initialized or not.
C26_OnlyActiveInitedOffered ==
    mgrPc = "loop" =>
       /\ \A d \in mgrDefs :
             /\ HasSep(d) /\ ServerPart(d) \in Servers
             /\ mgrServers[ServerPart(d)].inited
             /\ mgrServers[ServerPart(d)].enabled \/ ServerPart(d) \in Range(mgrNames)
             /\ ToolPart(d) \in Range(mgrServers[ServerPart(d)].tools)
       /\ \A n \in Servers :
             (~mgrServers[n].enabled /\ n \notin Range(mgrNames)) => n \notin OfferedServers

\* fs is disabled and was initialized by an earlier query; this query names
\* only gh and is offered the tool of gh alone
C26_Witness ==
    /\ mgrPc = "loop" /\ mgrQueries = 2 /\ mgrNames = <<ServerGH>>
    /\ ~mgrServers[ServerFS].enabled /\ mgrServers[ServerFS].inited
    /\ mgrDefs = {ServerGH \o Separator \o ToolLS}
(***************************************************************************)
(* Properties of the sub-agent                                             *)
(***************************************************************************)
\* the handlers whose invocation of SubAgentFn has not returned
InFlight == {g \in Handlers : saPc[g] \in {"entered", "running"}}

\* C27: SubAgentDepth goes up by one when SubAgentFn is entered and down by
\* one when it returns, with a text or with an error; it is never negative,
\* equals the number of invocations that have not returned, and is 0 when
\* there is none.
C27_DepthBalanced ==
    /\ [](saDepth >= 0 /\ saDepth = Cardinality(InFlight))
    /\ [][\A g \in Handlers :
             /\ (saPc[g] = "loop" /\ saPc'[g] # "loop") => saDepth' = saDepth + 1
             /\ (saPc[g] = "running" /\ saPc'[g] = "returned") => saDepth' = saDepth - 1]_vars

\* an invocation has returned an error and none is running
C27_Witness ==
    /\ InFlight = {} /\ saDepth = 0
    /\ \E g \in Handlers : saPc[g] = "returned" /\ saRet[g].failed

\* C28: the depth an invocation reads is 1, the invocation being called by
\* a tool of a top-level loop, whatever the other handlers do.
C28_ReadsCallStackDepth == \A g \in Handlers : saRead[g] # NoRead => saRead[g] = <<1>>

\* C29: an invocation starts on a conversation of two messages, the system
\* instruction and the user payload; it hands back a text or an error; while
\* it runs the messages of the calling loop do not change, and afterwards the
\* loop appends one tool message for the call, with the text returned.
C29_SubAgentIsolated ==
    [][\A g \in Handlers :
          /\ (saPc[g] = "loop" /\ saPc'[g] # "loop") =>
                /\ Len(saMsgs'[g]) = 2
                /\ saMsgs'[g][1].Role = RoleSystem /\ saMsgs'[g][1].Content \in SubPrompts
                /\ saMsgs'[g][2].Role = RoleUser /\ saMsgs'[g][2].Content \in SubPayloads
                /\ \A i \in 1..2 : saMsgs'[g][i].ToolCalls = <<>>
          /\ saPc[g] # "loop" => saMsgs'[g] = saMsgs[g]
          /\ saPc[g] # "returned" => saParent'[g] = saParent[g]
          /\ (saPc[g] = "returned" /\ saPc'[g] = "loop") =>
                /\ Len(saParent'[g]) = Len(saParent[g]) + 1
                /\ SubSeq(saParent'[g], 1, Len(saParent[g])) = saParent[g]
                /\ saParent'[g][Len(saParent'[g])].Role = RoleTool
                /\ saParent'[g][Len(saParent'[g])].ToolCallID = CallS.ID
                /\ saParent'[g][Len(saParent'[g])].ToolCalls = <<>>
                /\ ~saRet[g].failed =>
                      saParent'[g][Len(saParent'[g])].Content = saRet[g].text]_vars

\* a loop holds the summary of its sub-agent as its one new message
C29_Witness ==
    \E g \in Handlers :
       /\ saPc[g] = "loop" /\ saCalls[g] = 1
       /\ saParent[g] = Append(ParentAtCall, Message(RoleTool, <<"s", "u", "m">>, <<>>, CallS.ID))
(***************************************************************************)
(* Properties of the network exchanges                                     *)
(***************************************************************************)
\* C30: a tools/call request that the server accepts and never answers ends
\* all the same: callTool returns an error, the loop appends the "error: "
\* tool message and goes on.
C30_SilentServerTimesOut ==
    ctSilent => <>(ctPc = "next" /\ ctRet.failed /\ StartsWith(ctMsg.Content, ErrPrefix))
(***************************************************************************)
(* Properties of doStream                                                  *)
(***************************************************************************)
\* C34: the finalized ToolCalls holds one entry for every slot index that
\* received a fragment, whatever the set of indices the server used.
C34_NoToolCallLost ==
    streamEnded =>
       /\ Len(toolCalls) = Cardinality(DOMAIN tcMap)
       /\ \A i \in DOMAIN tcMap : \E k \in 1..Len(toolCalls) : toolCalls[k] = tcMap[i]
(***************************************************************************)
(* Further properties of the thinkFilter                                   *)
(***************************************************************************)
\* the marker process looks for
Awaited == IF active THEN TagClose ELSE TagOpen

\* C33: whenever process has returned, pending is empty or a beginning of
\* the awaited marker that is shorter than the marker.
C33_PendingBounded ==
    \/ pending = <<>>
    \/ /\ Len(pending) <= Len(Awaited) - 1
       /\ pending = SubSeq(Awaited, 1, Len(pending))

\* text was pushed before the closing marker less its last character, and
\* only that beginning of the marker is held
C33_Witness ==
    /\ active /\ ~flushed /\ pending = SubSeq(TagClose, 1, Len(TagClose) - 1)
    /\ pos > Len(TagOpen) + Len(pending)

\* C38: once the stream has been flushed, stripThinkTags applied to the whole
\* content equals, up to surrounding white space, the text the filter handed
\* to writeContent, whatever markers the content holds (unclosed and nested
\* ones included).
C38_StripEqualsFilter ==
    flushed => stripThinkTags(text) = TrimSpace(Visible(emitted))

(***************************************************************************)
(* Further properties of the MCPManager                                    *)
(***************************************************************************)
\* C35: the executor sends tools/call only to a server that is active for
\* the current query, that is, enabled in the configuration or named in
\* mcpNames.
C35_OnlyActiveServerContacted ==
    mgrRoute.route = "remote" =>
        \/ mgrServers[mgrRoute.server].enabled
        \/ mgrRoute.server \in Range(mgrNames)

(***************************************************************************)
(* Properties of doStream reading the body                                 *)
(***************************************************************************)
\* the first data: [DONE] line the scanner gets to, or 0
DoneAt ==
    LET ks == {k \in 1..Len(bdBody) :
                  /\ bdBody[k].kind = "done"
                  /\ \A j \in 1..(k - 1) : ~bdBody[j].long /\ bdBody[j].kind # "done"}
    IN IF ks = {} THEN 0 ELSE CHOOSE k \in ks : TRUE

\* C31: when the body holds a data: [DONE] line that the scanner gets to,
\* doStream returns what the lines before it accumulated, without an error,
\* and has read no line after it, whatever those lines are.
C31_DoneEndsDecoding ==
    (bdPc = "returned" /\ DoneAt > 0) =>
        /\ bdPos = DoneAt
        /\ ~bdRet.failed
        /\ bdRet = doStream(SubSeq(bdBody, 1, DoneAt - 1))

C31_Witness ==
    /\ bdPc = "returned" /\ DoneAt > 1 /\ DoneAt < Len(bdBody)
    /\ bdBody[DoneAt - 1].delta.Content = <<"a">>
    /\ bdBody[DoneAt + 1].delta.ToolCalls # <<>>
    /\ bdRet = StreamResult(<<"a">>, <<>>)

\* a line the loop passes over: no data: prefix, or a payload that is not a
\* chunk
Skippable(l) == l.kind \in {"other", "bad"}

Kept(l) == ~Skippable(l)

\* not a passed-over line that fits the scanner's buffer
KeptOrLong(l) == ~Skippable(l) \/ l.long

RECURSIVE IsSubseq(_, _)
IsSubseq(a, b) ==
    IF a = <<>> THEN TRUE
    ELSE IF b = <<>> THEN FALSE
    ELSE IF Head(a) = Head(b) THEN IsSubseq(Tail(a), Tail(b))
    ELSE IsSubseq(a, Tail(b))

\* C36: what doStream has written to contentOut when it returns is the
\* content of the stream in its order, less what was taken for thinking
\* text: no character is written after one that arrived later.
C36_ContentOutInOrder ==
    bdPc = "returned" => IsSubseq(bdAcc.contentOut, bdAcc.Content)

(***************************************************************************)
(* Properties of the webhook handler                                       *)
(***************************************************************************)
\* C37: with a non-empty list of allowed users the handler starts
\* handleBotMessage only for a message whose sender is present and in the
\* list.
C37_OnlyAllowedSendersProcessed ==
    (whAllowed # {} /\ whLast.started) =>
        /\ whLast.request.from # <<>>
        /\ whLast.request.from[1] \in whAllowed

(***************************************************************************)
(* Properties of splitTelegramMessage                                      *)
(***************************************************************************)
\* C39: splitTelegramMessage is a lossless bounded split.  At every point
\* the chunks cut so far followed by what is left are the input and each
\* chunk cut in the loop has between 1 and telegramMaxLen bytes; each pass of
\* the loop either returns or leaves less text, so the function terminates;
\* and a text of at most telegramMaxLen bytes comes back as one chunk, which
\* is empty only for the empty text.
C39_LosslessBoundedSplit ==
    /\ [](/\ spPc = "loop" => Concat(spChunks) \o spRest = spText
          /\ spPc = "returned" => Concat(spChunks) = spText
          /\ \A k \in 1..Len(spChunks) :
                /\ Len(spChunks[k]) <= telegramMaxLen
                /\ Len(spChunks[k]) >= 1 \/ (spText = <<>> /\ Len(spChunks) = 1)
          /\ (spPc = "returned" /\ Len(spText) <= telegramMaxLen) => spChunks = <<spText>>)
    /\ [][spPc' = "returned" \/ Len(spRest') < Len(spRest)]_vars

C39_Witness ==
    /\ spPc = "returned" /\ Len(spChunks) = 3
    /\ Len(spChunks[1]) < telegramMaxLen /\ Len(spChunks[2]) = telegramMaxLen
    /\ spChunks[1][Len(spChunks[1])] = "\n"

(***************************************************************************)
(* Properties of fetchAllNews                                              *)
(***************************************************************************)
\* C40: in every interleaving of the goroutines each goroutine assigns only
\* to the slot of its own index; fetchAllNews returns only when every
\* goroutine has ended; and the slice returned holds, at each index, the
\* URL at that index, its name, and either the content (cut when longer
\* than the limit) or the error that FetchURL returned for that URL to the
\* goroutine of that index, the other of the two fields left unset.
C40_SlotsOwnedAndOrdered ==
    /\ \A w \in nwWrote : w[2] = w[1]
    /\ nwPc = "returned" =>
          \A k \in 1..Len(nwUrls) :
             /\ nwG[k] = "done"
             /\ nwSources[k].URL = nwUrls[k]
             /\ nwSources[k].Name = sourceName(nwUrls[k])
             /\ nwGot[k].of = nwUrls[k]
             /\ IF nwGot[k].failed
                THEN /\ nwSources[k].Err = Field(TRUE, nwUrls[k], FALSE)
                     /\ nwSources[k].Content = Unset
                ELSE /\ nwSources[k].Content = Field(TRUE, nwUrls[k], nwGot[k].long)
                     /\ nwSources[k].Err = Unset

C40_Witness ==
    /\ nwPc = "returned" /\ Len(nwUrls) = 3
    /\ nwUrls[1] = nwUrls[3] /\ nwUrls[2] # nwUrls[1]
    /\ nwSources[1].Err.set /\ nwSources[2].Content.cut
    /\ nwSources[3].Content.set /\ ~nwSources[3].Content.cut

====
